---- MODULE Spec2Model ----
(***************************************************************************)
(* AgentNapster: the agent registry and skill-exchange ledger of           *)
(* src/main.py.  The five SQLite relations are the state; every HTTP       *)
(* handler is one action that runs from its first statement to its commit. *)
(***************************************************************************)
EXTENDS Integers, Sequences, FiniteSets, TLC

VARIABLES
    agents,     \* rows of table agents, in rowid (insertion) order
    skills,     \* rows of table skills; AUTOINCREMENT id = position
    transfers,  \* rows of table transfers
    requests,   \* rows of table requests
    ratings,    \* rows of table ratings
    now,        \* the clock: what datetime.now() returns; it advances with every call
    last,       \* the last call: handler, request body, HTTP status, result
    prev,       \* the call before the last one
    conn        \* the connections of the calls that run statement by statement

vars == <<agents, skills, transfers, requests, ratings, now, last, prev, conn>>
store == <<agents, skills, transfers, requests, ratings>>

-----------------------------------------------------------------------------
(* Bounds of the model *)

\* the number of calls made
MaxOps == 3
\* the same bound for the specification of the rating operations
MaxRateOps == 5
\* the same bound for the specification of discovery
MaxDiscoverOps == 4
\* the same bound for the specification of long runs
MaxLongOps == 5
\* the specification of the statistics: most agents and most skills
MaxStatsRows == 6
\* the specification of the statistics: most shares
MaxStatsShares == 2
\* the most calls in the specification of share running statement by statement
MaxAtomicOps == 5
\* the most calls in the specification of the dispatching endpoint
MaxNapsterOps == 3
\* the most connections that are open at the same time
MaxConns == 2
\* the most calls in the specification of the racing calls
MaxRaceOps == 6

-----------------------------------------------------------------------------
(* Values *)

\* Python None / SQL NULL in a text position
None == "<None>"
\* SQL NULL in an integer position (ids start at 1, so 0 names no row)
NoId == 0
\* SQL NULL in a timestamp position
NoTime == -1

\* A request body is a JSON object: a function from the keys it holds.
Get(body, key, default) == IF key \in DOMAIN body THEN body[key] ELSE default

\* Python truthiness of a text value: None and "" are falsy
Falsy(x) == x = None \/ x = ""

\* Python truthiness of a number: None and 0 are falsy
FalsyId(n) == n = NoId

-----------------------------------------------------------------------------
(* Text: skill tags are sequences of characters *)

Quote == "\""
Backslash == "\\"

UpperToLower == [W |-> "w", S |-> "s"]

\* str.lower() on one character, and SQLite's ASCII case folding in LIKE
LowerChar(c) == IF c \in DOMAIN UpperToLower THEN UpperToLower[c] ELSE c

\* str.lower()
Lower(s) == [i \in 1..Len(s) |-> LowerChar(s[i])]

RECURSIVE JsonEscape(_)
\* json.dumps of the characters of a string: quote and backslash are escaped
JsonEscape(s) ==
    IF s = <<>> THEN <<>>
    ELSE (IF Head(s) = Quote \/ Head(s) = Backslash
          THEN <<Backslash, Head(s)>>
          ELSE <<Head(s)>>) \o JsonEscape(Tail(s))

JsonDumpsStr(s) == <<Quote>> \o JsonEscape(s) \o <<Quote>>

RECURSIVE JsonJoin(_)
JsonJoin(l) ==
    IF l = <<>> THEN <<>>
    ELSE IF Len(l) = 1 THEN JsonDumpsStr(l[1])
    ELSE JsonDumpsStr(l[1]) \o <<",", " ">> \o JsonJoin(Tail(l))

\* json.dumps(skills) of a list of strings
JsonDumps(l) == <<"[">> \o JsonJoin(l) \o <<"]">>

RECURSIVE JsonParseStr(_, _)
\* the characters of a JSON string up to its closing quote, and what follows
JsonParseStr(s, acc) ==
    IF s = <<>> THEN [str |-> acc, rest |-> <<>>]
    ELSE IF Head(s) = Quote THEN [str |-> acc, rest |-> Tail(s)]
    ELSE IF Head(s) = Backslash /\ Len(s) >= 2
         THEN JsonParseStr(Tail(Tail(s)), Append(acc, s[2]))
    ELSE JsonParseStr(Tail(s), Append(acc, Head(s)))

RECURSIVE JsonParseItems(_)
JsonParseItems(s) ==
    IF s = <<>> THEN <<>>
    ELSE IF Head(s) = Quote
         THEN LET r == JsonParseStr(Tail(s), <<>>)
              IN  <<r.str>> \o JsonParseItems(r.rest)
    ELSE JsonParseItems(Tail(s))

\* json.loads of the text json.dumps wrote for a list of strings
JsonLoads(t) == JsonParseItems(t)

RECURSIVE Like(_, _)
\* SQLite's LIKE: % matches any run, _ any one character, letters fold case
Like(p, t) ==
    IF p = <<>> THEN t = <<>>
    ELSE IF Head(p) = "%"
         THEN Like(Tail(p), t) \/ (t # <<>> /\ Like(p, Tail(t)))
    ELSE /\ t # <<>>
         /\ (Head(p) = "_" \/ LowerChar(Head(p)) = LowerChar(Head(t)))
         /\ Like(Tail(p), Tail(t))

-----------------------------------------------------------------------------
(* Numbers: REAL columns hold exact fractions <<numerator, denominator>> *)

RECURSIVE Gcd(_, _)
Gcd(a, b) == IF b = 0 THEN a ELSE Gcd(b, a % b)

Frac(n, d) == LET g == Gcd(n, d) IN <<n \div g, d \div g>>

\* reputation REAL DEFAULT 5.0, rating REAL DEFAULT 5.0
DefaultScore == <<5, 1>>

\* a > b for fractions
FracGreater(a, b) == a[1] * b[2] > b[1] * a[2]

RECURSIVE SumRating(_)
SumRating(rs) == IF rs = <<>> THEN 0 ELSE Head(rs).rating + SumRating(Tail(rs))

\* SQL AVG over rating rows (the caller passes a non-empty selection)
Avg(rs) == Frac(SumRating(rs), Len(rs))

-----------------------------------------------------------------------------
(* Relations *)

AgentIds == {agents[i].id : i \in DOMAIN agents}

AgentIndex(id) == CHOOSE i \in DOMAIN agents : agents[i].id = id

AgentRow(id) == agents[AgentIndex(id)]

\* f"Agent-{agent_id[:8]}": the agent ids of the model have at most 8
\* characters, so the slice keeps all of them
DefaultName(agent_id) == "Agent-" \o agent_id

\* the connections that can be open at the same time
ConnIds == 1..MaxConns

\* a connection that no call is using
ConnClosed == [state |-> "closed"]

Init ==
    /\ agents = <<>>
    /\ skills = <<>>
    /\ transfers = <<>>
    /\ requests = <<>>
    /\ ratings = <<>>
    /\ now = 0
    /\ last = [op |-> "init", status |-> 200, body |-> <<>>, result |-> <<>>]
    /\ prev = [op |-> "init", status |-> 200, body |-> <<>>, result |-> <<>>]
    /\ conn = [c \in ConnIds |-> ConnClosed]

\* HTTPException(status_code=400): nothing was opened, nothing is written
Reject(op, body) ==
    /\ last' = [op |-> op, status |-> 400, body |-> body, result |-> <<>>]
    /\ now' = now + 1
    /\ prev' = last
    /\ conn' = conn
    /\ UNCHANGED <<agents, skills, transfers, requests, ratings>>

\* an uncaught Python exception before the connection is opened: HTTP 500
Crash(op, body) ==
    /\ last' = [op |-> op, status |-> 500, body |-> body, result |-> <<>>]
    /\ now' = now + 1
    /\ prev' = last
    /\ conn' = conn
    /\ UNCHANGED <<agents, skills, transfers, requests, ratings>>

-----------------------------------------------------------------------------
(* POST /api/agents/register *)

\* as INSERT OR REPLACE would: the row is written afresh
RegisterUpdateReplace(row, name, description, skillsText, t) ==
    [id |-> row.id, name |-> name, description |-> description,
     skills |-> skillsText, reputation |-> <<5, 1>>,
     total_shares |-> 0, total_receives |-> 0,
     registered_at |-> t, last_seen |-> t, status |-> "online"]

\* an update that also puts the reputation back to its default
RegisterUpdateResetReputation(row, name, description, skillsText, t) ==
    [row EXCEPT !.name = name, !.description = description,
                !.skills = skillsText, !.last_seen = t, !.status = "online",
                !.reputation = DefaultScore]

RegisterUpdate(row, name, description, skillsText, t) ==
    [row EXCEPT !.name = name, !.description = description,
                !.skills = skillsText, !.last_seen = t, !.status = "online"]

RegisterInsert(agent_id, name, description, skillsText, t) ==
    [id |-> agent_id, name |-> name, description |-> description,
     skills |-> skillsText, reputation |-> DefaultScore,
     total_shares |-> 0, total_receives |-> 0,
     registered_at |-> t, last_seen |-> t, status |-> "online"]

\* an existence check that looks the id up in the name column
RegisterExistingByName(agent_id) == agent_id \in {agents[i].name : i \in DOMAIN agents}

\* SELECT id FROM agents WHERE id = ?, fetchone()
RegisterExisting(agent_id) == agent_id \in AgentIds

RegisterAgent(body) ==
    LET agent_id == Get(body, "agent_id", None) IN
    IF agent_id = None
    THEN \* agent_id[:8] in the default of name is evaluated first
         Crash("register", body)
    ELSE
    LET name == Get(body, "name", DefaultName(agent_id))
        description == Get(body, "description", "")
        skillList == Get(body, "skills", <<>>)
    IN
    IF Falsy(agent_id) THEN Reject("register", body)
    ELSE
        /\ agents' =
             IF RegisterExisting(agent_id)
             THEN [agents EXCEPT ![AgentIndex(agent_id)] =
                      RegisterUpdate(@, name, description, JsonDumps(skillList), now)]
             ELSE Append(agents,
                      RegisterInsert(agent_id, name, description, JsonDumps(skillList), now))
        /\ now' = now + 1
        /\ prev' = last
        /\ conn' = conn
        /\ last' = [op |-> "register", status |-> 200, body |-> body,
                    result |-> [agent_id |-> agent_id, skills_registered |-> skillList]]
        /\ UNCHANGED <<skills, transfers, requests, ratings>>

-----------------------------------------------------------------------------
(* deregister: flips the status of an existing agent to offline *)

Deregister(agent_id) ==
    /\ agents' = [i \in DOMAIN agents |->
                    IF agents[i].id = agent_id
                    THEN [agents[i] EXCEPT !.status = "offline"]
                    ELSE agents[i]]
    /\ last' = [op |-> "deregister", status |-> 200,
                body |-> [agent_id |-> agent_id], result |-> <<>>]
    /\ now' = now + 1
    /\ prev' = last
    /\ conn' = conn
    /\ UNCHANGED <<skills, transfers, requests, ratings>>

-----------------------------------------------------------------------------
(* POST /api/skills/publish *)

SKILL_CATEGORIES ==
    {"utilities", "productivity", "data", "finance", "social", "creative",
     "development", "communication", "security", "other"}

\* an id taken from the number of skills of that owner, not from the table
PublishInsertOwnerId(skill_name, category, description, owner, endpoint, parameters, t) ==
    [id |-> Cardinality({i \in DOMAIN skills : skills[i].owner_agent_id = owner}) + 1,
     skill_name |-> skill_name, category |-> category,
     description |-> description, owner_agent_id |-> owner,
     endpoint |-> endpoint, parameters |-> parameters,
     rating |-> DefaultScore, times_shared |-> 0, created_at |-> t]

PublishInsert(skill_name, category, description, owner, endpoint, parameters, t) ==
    [id |-> Len(skills) + 1, skill_name |-> skill_name, category |-> category,
     description |-> description, owner_agent_id |-> owner,
     endpoint |-> endpoint, parameters |-> parameters,
     rating |-> DefaultScore, times_shared |-> 0, created_at |-> t]

\* a publish that returns the existing skill of the same owner and name
PublishSkillDedup(body) ==
    LET agent_id == Get(body, "agent_id", None)
        skill_name == Get(body, "skill_name", None)
        category == Get(body, "category", "other")
        same == {i \in DOMAIN skills :
                    /\ skills[i].owner_agent_id = agent_id
                    /\ skills[i].skill_name = skill_name}
    IN
    IF Falsy(agent_id) \/ Falsy(skill_name) THEN Reject("publish_skill", body)
    ELSE
        /\ skills' = IF same # {} THEN skills
                     ELSE Append(skills,
                            PublishInsert(skill_name, category, "", agent_id,
                                          "", "{}", now))
        /\ now' = now + 1
        /\ prev' = last
        /\ conn' = conn
        /\ last' = [op |-> "publish_skill", status |-> 200, body |-> body,
                    result |-> [skill_id |-> Len(skills')]]
        /\ UNCHANGED <<agents, transfers, requests, ratings>>

PublishSkill(body) ==
    LET agent_id == Get(body, "agent_id", None)
        skill_name == Get(body, "skill_name", None)
        category == Get(body, "category", "other")
        description == Get(body, "description", "")
        endpoint == Get(body, "endpoint", "")
        parameters == Get(body, "parameters", "{}")
    IN
    IF Falsy(agent_id) \/ Falsy(skill_name) THEN Reject("publish_skill", body)
    ELSE
        /\ skills' = Append(skills,
              PublishInsert(skill_name, category, description, agent_id,
                            endpoint, parameters, now))
        /\ now' = now + 1
        /\ prev' = last
        /\ conn' = conn
        /\ last' = [op |-> "publish_skill", status |-> 200, body |-> body,
                    result |-> [skill_id |-> Len(skills) + 1]]
        /\ UNCHANGED <<agents, transfers, requests, ratings>>

-----------------------------------------------------------------------------
(* POST /api/request *)

\* a request row whose fulfilled_at is stamped on creation
RequestInsertStamped(agent_id, skill_name, t) ==
    [id |-> Len(requests) + 1, requester_agent_id |-> agent_id,
     skill_name |-> skill_name, status |-> "open", fulfilled_by |-> None,
     created_at |-> t, fulfilled_at |-> t]

RequestInsert(agent_id, skill_name, t) ==
    [id |-> Len(requests) + 1, requester_agent_id |-> agent_id,
     skill_name |-> skill_name, status |-> "open", fulfilled_by |-> None,
     created_at |-> t, fulfilled_at |-> NoTime]

RequestSkill(body) ==
    LET agent_id == Get(body, "agent_id", None)
        skill_name == Get(body, "skill_name", None)
    IN
    IF Falsy(agent_id) \/ Falsy(skill_name) THEN Reject("request", body)
    ELSE
        /\ requests' = Append(requests, RequestInsert(agent_id, skill_name, now))
        /\ now' = now + 1
        /\ prev' = last
        /\ conn' = conn
        /\ last' = [op |-> "request", status |-> 200, body |-> body,
                    result |-> [request_id |-> Len(requests) + 1]]
        /\ UNCHANGED <<agents, skills, transfers, ratings>>

-----------------------------------------------------------------------------
(* POST /api/share *)

\* SELECT id FROM skills WHERE skill_name = ? AND owner_agent_id = ?, fetchone():
\* the table is scanned in rowid order, so the first match has the least id
ShareFindSkill(skill_name, from_agent_id) ==
    LET found == {i \in DOMAIN skills :
                    /\ skills[i].skill_name = skill_name
                    /\ skills[i].owner_agent_id = from_agent_id}
    IN  IF found = {} THEN NoId
        ELSE CHOOSE i \in found : \A j \in found : i <= j

\* a transfer that is recorded as pending until it is acknowledged
ShareTransferPending(skill_id, from_agent_id, to_agent_id, t) ==
    [id |-> Len(transfers) + 1, skill_id |-> skill_id,
     from_agent_id |-> from_agent_id, to_agent_id |-> to_agent_id,
     status |-> "pending", timestamp |-> t]

ShareTransfer(skill_id, from_agent_id, to_agent_id, t) ==
    [id |-> Len(transfers) + 1, skill_id |-> skill_id,
     from_agent_id |-> from_agent_id, to_agent_id |-> to_agent_id,
     status |-> "completed", timestamp |-> t]

\* a count that first creates the row of a sharer that has none
ShareCountSharesUpsert(ags, from_agent_id) ==
    IF \E i \in DOMAIN ags : ags[i].id = from_agent_id
    THEN [i \in DOMAIN ags |->
            IF ags[i].id = from_agent_id
            THEN [ags[i] EXCEPT !.total_shares = @ + 1]
            ELSE ags[i]]
    ELSE Append(ags, [RegisterInsert(from_agent_id, DefaultName(from_agent_id),
                                     "", JsonDumps(<<>>), now)
                        EXCEPT !.total_shares = 1])

\* UPDATE agents SET total_shares = total_shares + 1 WHERE id = ?
ShareCountShares(ags, from_agent_id) ==
    [i \in DOMAIN ags |->
        IF ags[i].id = from_agent_id
        THEN [ags[i] EXCEPT !.total_shares = @ + 1]
        ELSE ags[i]]

\* the same UPDATE without its WHERE clause: every agent is counted
ShareCountReceivesAll(ags, to_agent_id) ==
    [i \in DOMAIN ags |-> [ags[i] EXCEPT !.total_receives = @ + 1]]

\* UPDATE agents SET total_receives = total_receives + 1 WHERE id = ?
ShareCountReceives(ags, to_agent_id) ==
    [i \in DOMAIN ags |->
        IF ags[i].id = to_agent_id
        THEN [ags[i] EXCEPT !.total_receives = @ + 1]
        ELSE ags[i]]

\* an update keyed by name and owner: every skill of that name and owner is counted
ShareCountSkillByName(skill_id) ==
    [i \in DOMAIN skills |->
        IF /\ ~FalsyId(skill_id)
           /\ skills[i].skill_name = skills[skill_id].skill_name
           /\ skills[i].owner_agent_id = skills[skill_id].owner_agent_id
        THEN [skills[i] EXCEPT !.times_shared = @ + 1]
        ELSE skills[i]]

\* UPDATE skills SET times_shared = times_shared + 1 WHERE id = ?
ShareCountSkill(skill_id) ==
    [i \in DOMAIN skills |->
        IF ~FalsyId(skill_id) /\ skills[i].id = skill_id
        THEN [skills[i] EXCEPT !.times_shared = @ + 1]
        ELSE skills[i]]

\* a fulfilment that is applied to open requests only
ShareFulfillOpenOnly(request_id, from_agent_id, t) ==
    [i \in DOMAIN requests |->
        IF ~FalsyId(request_id) /\ requests[i].id = request_id
           /\ requests[i].status = "open"
        THEN [requests[i] EXCEPT !.status = "fulfilled",
                                 !.fulfilled_by = from_agent_id,
                                 !.fulfilled_at = t]
        ELSE requests[i]]

\* a fulfilment whose UPDATE has lost its WHERE clause
ShareFulfillAll(request_id, from_agent_id, t) ==
    [i \in DOMAIN requests |->
        IF ~FalsyId(request_id)
        THEN [requests[i] EXCEPT !.status = "fulfilled",
                                 !.fulfilled_by = from_agent_id,
                                 !.fulfilled_at = t]
        ELSE requests[i]]

\* UPDATE requests SET status = 'fulfilled', fulfilled_by = ?, fulfilled_at = ?
\* WHERE id = ?
ShareFulfill(request_id, from_agent_id, t) ==
    [i \in DOMAIN requests |->
        IF ~FalsyId(request_id) /\ requests[i].id = request_id
        THEN [requests[i] EXCEPT !.status = "fulfilled",
                                 !.fulfilled_by = from_agent_id,
                                 !.fulfilled_at = t]
        ELSE requests[i]]

\* a check of the required fields that forgets skill_name
ShareInvalidNoSkill(from_agent_id, to_agent_id, skill_name) ==
    Falsy(from_agent_id) \/ Falsy(to_agent_id)

\* the check of the required fields, share_skill line 393
ShareInvalid(from_agent_id, to_agent_id, skill_name) ==
    Falsy(from_agent_id) \/ Falsy(to_agent_id) \/ Falsy(skill_name)

ShareSkill(body) ==
    LET from_agent_id == Get(body, "from_agent_id", None)
        to_agent_id == Get(body, "to_agent_id", None)
        skill_name == Get(body, "skill_name", None)
        request_id == Get(body, "request_id", NoId)
    IN
    IF ShareInvalid(from_agent_id, to_agent_id, skill_name)
    THEN Reject("share", body)
    ELSE
        LET skill_id == ShareFindSkill(skill_name, from_agent_id) IN
        /\ transfers' = Append(transfers,
              ShareTransfer(skill_id, from_agent_id, to_agent_id, now))
        /\ agents' = ShareCountReceives(ShareCountShares(agents, from_agent_id),
                                        to_agent_id)
        /\ skills' = ShareCountSkill(skill_id)
        /\ requests' = ShareFulfill(request_id, from_agent_id, now)
        /\ now' = now + 1
        /\ prev' = last
        /\ conn' = conn
        /\ last' = [op |-> "share", status |-> 200, body |-> body,
                    result |-> [skill |-> skill_name, from |-> from_agent_id,
                                to |-> to_agent_id, timestamp |-> now]]
        /\ UNCHANGED ratings

-----------------------------------------------------------------------------
(* the handlers that write, statement by statement, on connections of their own *)

\* a connection in autocommit mode: every statement is committed as it runs
ConnVisibleAutocommit(committed, work) == work

\* sqlite3.connect with the default isolation level: the first INSERT opens a
\* transaction, and other connections read the committed database until
\* conn.commit()
ConnVisible(committed, work) == committed

ConnStore ==
    [agents |-> agents, skills |-> skills, transfers |-> transfers,
     requests |-> requests]

\* a connection holds the write lock from its first write until it is
\* committed or closed
ConnWriting == \E c \in ConnIds : conn[c].state # "closed" /\ conn[c].pc > 1

\* a transaction that works on the rows as the connection saw them when it
\* was opened
ConnBeginAtOpen(c) == conn[c].work

\* the first write of a connection opens its transaction under the write
\* lock: its statements read the rows as they are committed at that moment
ConnBegin(c) == ConnStore

\* sqlite3.OperationalError (database is locked) in the first write of a
\* handler while another connection holds the write lock: HTTP 500
Busy(op, body) ==
    /\ last' = [op |-> op, status |-> 500, body |-> body, result |-> <<>>]
    /\ now' = now + 1
    /\ prev' = last
    /\ UNCHANGED <<agents, skills, transfers, requests, ratings, conn>>

\* lines 387-403: the body is read and checked, the connection is opened, the
\* timestamp is taken and the skill is looked up
ShareOpen(c, body) ==
    LET from_agent_id == Get(body, "from_agent_id", None)
        to_agent_id == Get(body, "to_agent_id", None)
        skill_name == Get(body, "skill_name", None)
    IN
    /\ conn[c].state = "closed"
    /\ IF ShareInvalid(from_agent_id, to_agent_id, skill_name)
       THEN Reject("share", body)
       ELSE /\ conn' = [conn EXCEPT ![c] =
                          [state |-> "open", op |-> "share", body |-> body,
                           pc |-> 1, t |-> now,
                           skill_id |-> ShareFindSkill(skill_name, from_agent_id),
                           work |-> ConnStore]]
            /\ now' = now + 1
            /\ UNCHANGED <<agents, skills, transfers, requests, ratings, last, prev>>

\* lines 405-424, one statement at a time: 1 the INSERT, 2 and 3 the counters
\* of the two agents, 4 the counter of the skill, 5 the fulfilment; the
\* first of them waits while another connection holds the write lock
ShareStatement(c) ==
    /\ conn[c].state = "open"
    /\ conn[c].op = "share"
    /\ conn[c].pc \in 1..5
    /\ conn[c].pc = 1 => ~ConnWriting
    /\ LET from_agent_id == conn[c].body.from_agent_id
           to_agent_id == conn[c].body.to_agent_id
           request_id == Get(conn[c].body, "request_id", NoId)
           w == IF conn[c].pc = 1 THEN ConnBegin(c) ELSE conn[c].work
           done ==
             CASE conn[c].pc = 1 ->
                    [w EXCEPT !.transfers = Append(w.transfers,
                        ShareTransfer(conn[c].skill_id, from_agent_id, to_agent_id,
                                      conn[c].t))]
               [] conn[c].pc = 2 ->
                    [w EXCEPT !.agents = ShareCountShares(w.agents, from_agent_id)]
               [] conn[c].pc = 3 ->
                    [w EXCEPT !.agents = ShareCountReceives(w.agents, to_agent_id)]
               [] conn[c].pc = 4 ->
                    [w EXCEPT !.skills = ShareCountSkill(conn[c].skill_id)]
               [] conn[c].pc = 5 ->
                    [w EXCEPT !.requests =
                        ShareFulfill(request_id, from_agent_id, conn[c].t)]
           seen == ConnVisible(ConnStore, done)
       IN  /\ conn' = [conn EXCEPT ![c].pc = @ + 1, ![c].work = done]
           /\ agents' = seen.agents
           /\ skills' = seen.skills
           /\ transfers' = seen.transfers
           /\ requests' = seen.requests
    /\ UNCHANGED <<ratings, now, last, prev>>

\* lines 426-438: conn.commit(), conn.close() and the response
ShareCommit(c) ==
    /\ conn[c].state = "open"
    /\ conn[c].op = "share"
    /\ conn[c].pc = 6
    /\ agents' = conn[c].work.agents
    /\ skills' = conn[c].work.skills
    /\ transfers' = conn[c].work.transfers
    /\ requests' = conn[c].work.requests
    /\ last' = [op |-> "share", status |-> 200, body |-> conn[c].body,
                result |-> [skill |-> conn[c].body.skill_name,
                            from |-> conn[c].body.from_agent_id,
                            to |-> conn[c].body.to_agent_id,
                            timestamp |-> conn[c].t]]
    /\ prev' = last
    /\ conn' = [conn EXCEPT ![c] = ConnClosed]
    /\ UNCHANGED <<ratings, now>>

\* a statement or the commit raises: the exception leaves the handler, which
\* ends with HTTP 500 before it reaches conn.close() at line 427; no try,
\* finally or with closes the connection, so it stays as it is, its
\* transaction neither committed nor rolled back
ShareAbort(c) ==
    /\ conn[c].state = "open"
    /\ conn[c].op = "share"
    /\ last' = [op |-> "share", status |-> 500, body |-> conn[c].body,
                result |-> <<>>]
    /\ prev' = last
    /\ conn' = [conn EXCEPT ![c].state = "dropped"]
    /\ UNCHANGED <<agents, skills, transfers, requests, ratings, now>>

\* the garbage collector frees the connection object that a failed handler
\* left behind: sqlite3 closes the handle and the transaction is rolled back
ConnFinalize(c) ==
    /\ conn[c].state = "dropped"
    /\ conn' = [conn EXCEPT ![c] = ConnClosed]
    /\ UNCHANGED <<agents, skills, transfers, requests, ratings, now, last, prev>>

\* lines 126-140: the body is read and checked, the connection is opened, the
\* timestamp is taken and the existence check is made
RegisterOpen(c, body) ==
    LET agent_id == Get(body, "agent_id", None) IN
    /\ conn[c].state = "closed"
    /\ IF agent_id = None THEN Crash("register", body)
       ELSE IF Falsy(agent_id) THEN Reject("register", body)
       ELSE /\ conn' = [conn EXCEPT ![c] =
                          [state |-> "open", op |-> "register", body |-> body,
                           pc |-> 1, t |-> now,
                           existing |-> RegisterExisting(agent_id),
                           work |-> ConnStore]]
            /\ now' = now + 1
            /\ UNCHANGED <<agents, skills, transfers, requests, ratings, last, prev>>

\* lines 141-152: the UPDATE or the INSERT that the existence check chose; it
\* waits while another connection holds the write lock, and the INSERT of an
\* id that has been committed since the check raises sqlite3.IntegrityError
\* (id is the PRIMARY KEY): HTTP 500, nothing written, and the connection is
\* left behind inside the transaction that the INSERT opened
RegisterWrite(c) ==
    /\ conn[c].state = "open"
    /\ conn[c].op = "register"
    /\ conn[c].pc = 1
    /\ ~ConnWriting
    /\ LET body == conn[c].body
           agent_id == body.agent_id
           name == Get(body, "name", DefaultName(agent_id))
           description == Get(body, "description", "")
           skillsText == JsonDumps(Get(body, "skills", <<>>))
           w == ConnBegin(c)
           here == {i \in DOMAIN w.agents : w.agents[i].id = agent_id}
       IN IF ~conn[c].existing /\ here # {}
          THEN /\ last' = [op |-> "register", status |-> 500, body |-> body,
                           result |-> <<>>, existing |-> conn[c].existing]
               /\ prev' = last
               /\ conn' = [conn EXCEPT ![c].state = "dropped", ![c].pc = 2,
                                       ![c].work = w]
               /\ UNCHANGED <<agents, skills, transfers, requests, ratings, now>>
          ELSE /\ conn' = [conn EXCEPT ![c].pc = 2, ![c].work =
                     [w EXCEPT !.agents =
                        IF conn[c].existing
                        THEN [i \in DOMAIN w.agents |->
                                IF i \in here
                                THEN RegisterUpdate(w.agents[i], name, description,
                                                    skillsText, conn[c].t)
                                ELSE w.agents[i]]
                        ELSE Append(w.agents,
                                RegisterInsert(agent_id, name, description,
                                               skillsText, conn[c].t))]]
               /\ UNCHANGED <<agents, skills, transfers, requests, ratings, now,
                              last, prev>>

\* lines 154-162: conn.commit(), conn.close() and the response
RegisterCommit(c) ==
    /\ conn[c].state = "open"
    /\ conn[c].op = "register"
    /\ conn[c].pc = 2
    /\ agents' = conn[c].work.agents
    /\ last' = [op |-> "register", status |-> 200, body |-> conn[c].body,
                result |-> [agent_id |-> conn[c].body.agent_id,
                            skills_registered |-> Get(conn[c].body, "skills", <<>>)],
                existing |-> conn[c].existing]
    /\ prev' = last
    /\ conn' = [conn EXCEPT ![c] = ConnClosed]
    /\ UNCHANGED <<skills, transfers, requests, ratings, now>>

-----
(* POST /api/rate *)

RateInsert(skill_id, agent_id, rating, review, t) ==
    [id |-> Len(ratings) + 1, skill_id |-> skill_id, rater_agent_id |-> agent_id,
     rating |-> rating, review |-> review, created_at |-> t]

\* an average that counts only the latest rating of each rater
RateSkillAvgPerRater(rs, skill_id) ==
    Avg(SelectSeq(rs, LAMBDA r :
            /\ r.skill_id = skill_id
            /\ ~\E k \in DOMAIN rs :
                  /\ rs[k].skill_id = skill_id
                  /\ rs[k].rater_agent_id = r.rater_agent_id
                  /\ rs[k].id > r.id))

\* SELECT AVG(rating) FROM ratings WHERE skill_id = ?
RateSkillAvg(rs, skill_id) ==
    Avg(SelectSeq(rs, LAMBDA r : r.skill_id = skill_id))

\* an owner average whose query has lost its WHERE clause
RateOwnerAvgAll(rs, sk, owner) ==
    Avg(SelectSeq(rs, LAMBDA r : \E i \in DOMAIN sk : sk[i].id = r.skill_id))

\* SELECT AVG(r.rating) FROM ratings r JOIN skills s ON r.skill_id = s.id
\* WHERE s.owner_agent_id = ?
RateOwnerAvg(rs, sk, owner) ==
    Avg(SelectSeq(rs, LAMBDA r :
            \E i \in DOMAIN sk : sk[i].id = r.skill_id /\ sk[i].owner_agent_id = owner))

\* a range check that is off by one at the lower end
RateOutOfRangeFromZero(rating) == rating < 0 \/ rating > 5

\* the range check of the rating, rate_skill line 489
RateOutOfRange(rating) == rating < 1 \/ rating > 5

RateSkill(body) ==
    LET agent_id == Get(body, "agent_id", None)
        skill_id == Get(body, "skill_id", NoId)
        rating == Get(body, "rating", 5)
        review == Get(body, "review", "")
    IN
    IF Falsy(agent_id) \/ FalsyId(skill_id) THEN Reject("rate", body)
    ELSE IF RateOutOfRange(rating) THEN Reject("rate", body)
    ELSE
        LET rs == Append(ratings, RateInsert(skill_id, agent_id, rating, review, now))
            avg == RateSkillAvg(rs, skill_id)
            sk == [i \in DOMAIN skills |->
                     IF skills[i].id = skill_id
                     THEN [skills[i] EXCEPT !.rating = avg]
                     ELSE skills[i]]
            found == {i \in DOMAIN sk : sk[i].id = skill_id}
        IN
        /\ ratings' = rs
        /\ skills' = sk
        /\ agents' =
             IF found = {} THEN agents
             ELSE LET owner == sk[CHOOSE i \in found : TRUE].owner_agent_id
                      owner_avg == RateOwnerAvg(rs, sk, owner)
                  IN  IF owner_avg[1] = 0 THEN agents
                      ELSE [i \in DOMAIN agents |->
                              IF agents[i].id = owner
                              THEN [agents[i] EXCEPT !.reputation = owner_avg]
                              ELSE agents[i]]
        /\ now' = now + 1
        /\ prev' = last
        /\ conn' = conn
        /\ last' = [op |-> "rate", status |-> 200, body |-> body, result |-> <<>>]
        /\ UNCHANGED <<transfers, requests>>

-----------------------------------------------------------------------------
(* POST /api/discover *)

\* the LIKE pattern f'%"{skill}"%'
DiscoverPattern(skill) == <<"%", Quote>> \o skill \o <<Quote, "%">>

\* a selection that does not look at the status column
DiscoverRowsAnyStatus(skill, requester_id) ==
    {i \in DOMAIN agents :
        /\ Like(DiscoverPattern(skill), agents[i].skills)
        /\ agents[i].id # requester_id}

\* WHERE skills LIKE ? AND status = 'online' AND id != ?
DiscoverRows(skill, requester_id) ==
    {i \in DOMAIN agents :
        /\ Like(DiscoverPattern(skill), agents[i].skills)
        /\ agents[i].status = "online"
        /\ agents[i].id # requester_id}

\* ORDER BY reputation DESC: every order of the rows in which no row comes
\* before a row of greater reputation (SQL leaves the order of ties open)
DiscoverOrders(rows) ==
    {o \in [1..Cardinality(rows) -> rows] :
        /\ \A k, l \in DOMAIN o : k # l => o[k] # o[l]
        /\ \A k, l \in DOMAIN o :
              k < l => ~FracGreater(agents[o[l]].reputation, agents[o[k]].reputation)}

\* skill.lower() in [s.lower() for s in json.loads(agent["skills"])]
DiscoverHasSkill(skill, row) ==
    LET agent_skills == JsonLoads(row.skills)
    IN  \E k \in DOMAIN agent_skills : Lower(agent_skills[k]) = Lower(skill)

DiscoverMatch(skill, row) ==
    [skill |-> skill, agent_id |-> row.id, agent_name |-> row.name,
     reputation |-> row.reputation, total_shares |-> row.total_shares]

RECURSIVE DiscoverLoop(_, _)
\* the inner loop: the rows of one query, in order, that pass the membership test
DiscoverLoop(skill, order) ==
    IF order = <<>> THEN <<>>
    ELSE (IF DiscoverHasSkill(skill, agents[Head(order)])
          THEN <<DiscoverMatch(skill, agents[Head(order)])>>
          ELSE <<>>) \o DiscoverLoop(skill, Tail(order))

RECURSIVE DiscoverResults(_, _)
\* the outer loop: every result list the handler can build
DiscoverResults(skills_needed, requester_id) ==
    IF skills_needed = <<>> THEN {<<>>}
    ELSE {DiscoverLoop(Head(skills_needed), o) \o rest :
            o \in DiscoverOrders(DiscoverRows(Head(skills_needed), requester_id)),
            rest \in DiscoverResults(Tail(skills_needed), requester_id)}

DiscoverSkills(body) ==
    LET skills_needed == Get(body, "skills_needed", <<>>)
        requester_id == Get(body, "agent_id", "anonymous")
    IN
    IF skills_needed = <<>> THEN Reject("discover", body)
    ELSE
        /\ \E results \in DiscoverResults(skills_needed, requester_id) :
              last' = [op |-> "discover", status |-> 200, body |-> body,
                       result |-> results]
        /\ now' = now + 1
        /\ prev' = last
        /\ conn' = conn
        /\ UNCHANGED <<agents, skills, transfers, requests, ratings>>

-----------------------------------------------------------------------------
(* GET /api/stats *)

\* LIMIT 5
StatsLimit == 5

RECURSIVE StatsTop(_, _, _)
\* ORDER BY key DESC LIMIT k over the rows in left: every sequence of at most
\* k rows in which each row has the greatest key of the rows not yet taken
\* (SQL leaves the order of ties open)
StatsTop(keys, left, k) ==
    IF k = 0 \/ left = {} THEN {<<>>}
    ELSE LET best == {i \in left : \A j \in left : keys[j] <= keys[i]}
         IN  UNION {{<<i>> \o rest : rest \in StatsTop(keys, left \ {i}, k - 1)}
                        : i \in best}

StatsSkillEntry(row) == [name |-> row.skill_name, shares |-> row.times_shared]

StatsAgentEntry(row) ==
    [name |-> row.name, shares |-> row.total_shares, reputation |-> row.reputation]

\* the first five rows as stored, with no ordering
StatsTopSkillsUnordered ==
    {[k \in 1..(IF Len(skills) < StatsLimit THEN Len(skills) ELSE StatsLimit)
        |-> StatsSkillEntry(skills[k])]}

\* SELECT skill_name, times_shared FROM skills ORDER BY times_shared DESC LIMIT 5
StatsTopSkills ==
    {[k \in DOMAIN o |-> StatsSkillEntry(skills[o[k]])]
        : o \in StatsTop([i \in DOMAIN skills |-> skills[i].times_shared],
                         DOMAIN skills, StatsLimit)}

\* SELECT name, total_shares, reputation FROM agents
\* ORDER BY total_shares DESC LIMIT 5
StatsTopSharers ==
    {[k \in DOMAIN o |-> StatsAgentEntry(agents[o[k]])]
        : o \in StatsTop([i \in DOMAIN agents |-> agents[i].total_shares],
                         DOMAIN agents, StatsLimit)}

StatsNetwork ==
    [total_agents |-> Len(agents),
     online_agents |-> Cardinality({i \in DOMAIN agents : agents[i].status = "online"}),
     total_skills |-> Len(skills),
     total_transfers |-> Len(transfers),
     open_requests |-> Cardinality({i \in DOMAIN requests : requests[i].status = "open"})]

NetworkStats ==
    /\ \E top_skills \in StatsTopSkills, top_sharers \in StatsTopSharers :
          last' = [op |-> "stats", status |-> 200, body |-> <<>>,
                   result |-> [network |-> StatsNetwork,
                               top_skills |-> top_skills,
                               top_sharers |-> top_sharers]]
    /\ now' = now + 1
    /\ prev' = last
    /\ conn' = conn
    /\ UNCHANGED <<agents, skills, transfers, requests, ratings>>

-----------------------------------------------------------------------------
(* POST /api/napster: one endpoint that dispatches on an action name *)

\* action names are sequences of characters, as skill tags are
ActionRegister == <<"r", "e", "g", "i", "s", "t", "e", "r">>
ActionDiscover == <<"d", "i", "s", "c", "o", "v", "e", "r">>
ActionRequest == <<"r", "e", "q", "u", "e", "s", "t">>
ActionShare == <<"s", "h", "a", "r", "e">>
ActionListSkills == <<"l", "i", "s", "t", "_", "s", "k", "i", "l", "l", "s">>
ActionListAgents == <<"l", "i", "s", "t", "_", "a", "g", "e", "n", "t", "s">>
ActionStats == <<"s", "t", "a", "t", "s">>

\* the list in the answer to an unknown action
AvailableActions ==
    <<ActionRegister, ActionDiscover, ActionRequest, ActionShare,
      ActionListSkills, ActionListAgents, ActionStats>>

\* LIMIT 5 in the discover branch
NapsterDiscoverLimit == 5
\* LIMIT 20 in the list_skills and list_agents branches
NapsterListLimit == 20

\* the first k elements of a sequence
Limit(seq, k) == SubSeq(seq, 1, IF Len(seq) < k THEN Len(seq) ELSE k)

\* a response of the endpoint that is built in the handler itself
NapsterReturn(body, result) ==
    /\ last' = [op |-> "napster", status |-> 200, body |-> body, result |-> result]
    /\ now' = now + 1
    /\ prev' = last
    /\ conn' = conn

\* the register branch, lines 578-605
NapsterRegister(body, params) ==
    LET agent_id == Get(params, "agent_id", None)
        name == Get(params, "name",
                    IF Falsy(agent_id) THEN "Agent-unknown" ELSE DefaultName(agent_id))
        description == Get(params, "description", "")
        skillList == Get(params, "skills", <<>>)
    IN
    IF Falsy(agent_id)
    THEN /\ NapsterReturn(body, [error |-> "agent_id is required"])
         /\ UNCHANGED <<agents, skills, transfers, requests, ratings>>
    ELSE /\ agents' =
              IF RegisterExisting(agent_id)
              THEN [agents EXCEPT ![AgentIndex(agent_id)] =
                       RegisterUpdate(@, name, description, JsonDumps(skillList), now)]
              ELSE Append(agents,
                       RegisterInsert(agent_id, name, description, JsonDumps(skillList), now))
         /\ NapsterReturn(body, [agent_id |-> agent_id, skills_registered |-> skillList])
         /\ UNCHANGED <<skills, transfers, requests, ratings>>

\* WHERE skills LIKE '%skill%' AND status = 'online'
NapsterDiscoverRows(skill) ==
    {i \in DOMAIN agents :
        /\ Like(<<"%">> \o skill \o <<"%">>, agents[i].skills)
        /\ agents[i].status = "online"}

NapsterDiscoverMatch(skill, row) ==
    [skill |-> skill, agent_id |-> row.id, agent_name |-> row.name,
     reputation |-> row.reputation]

RECURSIVE NapsterDiscoverResults(_)
\* the loops of the discover branch: every list of matches they can build
NapsterDiscoverResults(skills_needed) ==
    IF skills_needed = <<>> THEN {<<>>}
    ELSE {[k \in DOMAIN Limit(o, NapsterDiscoverLimit) |->
              NapsterDiscoverMatch(Head(skills_needed), agents[o[k]])] \o rest :
            o \in DiscoverOrders(NapsterDiscoverRows(Head(skills_needed))),
            rest \in NapsterDiscoverResults(Tail(skills_needed))}

\* the discover branch, lines 613-636
NapsterDiscover(body, params) ==
    /\ \E results \in NapsterDiscoverResults(Get(params, "skills_needed", <<>>)) :
          NapsterReturn(body, [found |-> Len(results), matches |-> results])
    /\ UNCHANGED <<agents, skills, transfers, requests, ratings>>

\* the request branch, lines 638-662
NapsterRequest(body, params) ==
    LET agent_id == Get(params, "agent_id", None)
        skill_name == Get(params, "skill_name", None)
    IN
    IF Falsy(agent_id) \/ Falsy(skill_name)
    THEN /\ NapsterReturn(body, [error |-> "agent_id and skill_name are required"])
         /\ UNCHANGED <<agents, skills, transfers, requests, ratings>>
    ELSE /\ requests' = Append(requests, RequestInsert(agent_id, skill_name, now))
         /\ NapsterReturn(body, [request_id |-> Len(requests) + 1])
         /\ UNCHANGED <<agents, skills, transfers, ratings>>

NapsterSkillEntry(row) ==
    [name |-> row.skill_name, category |-> row.category, rating |-> row.rating]

\* the list_skills branch, lines 670-681: the skills of one category in the
\* order the table yields them, or the 20 most shared ones
NapsterListSkills(body, params) ==
    LET category == Get(params, "category", None)
        rows == IF Falsy(category) THEN DOMAIN skills
                ELSE {i \in DOMAIN skills : skills[i].category = category}
        keys == [i \in DOMAIN skills |->
                    IF Falsy(category) THEN skills[i].times_shared ELSE 0]
        most == IF Falsy(category) THEN NapsterListLimit ELSE Cardinality(rows)
    IN
    /\ \E o \in StatsTop(keys, rows, most) :
          NapsterReturn(body,
              [skills |-> [k \in DOMAIN o |-> NapsterSkillEntry(skills[o[k]])]])
    /\ UNCHANGED <<agents, skills, transfers, requests, ratings>>

\* the list_agents branch, lines 683-688
NapsterListAgents(body) ==
    /\ \E o \in DiscoverOrders({i \in DOMAIN agents : agents[i].status = "online"}) :
          NapsterReturn(body,
              [agents |-> [k \in DOMAIN Limit(o, NapsterListLimit) |->
                             [id |-> agents[o[k]].id, name |-> agents[o[k]].name,
                              reputation |-> agents[o[k]].reputation]]])
    /\ UNCHANGED <<agents, skills, transfers, requests, ratings>>

\* an else branch that refuses the call as the other endpoints do
NapsterUnknownRaises(body, action) == Reject("napster", body)

\* the else branch, lines 693-697
NapsterUnknown(body, action) ==
    /\ NapsterReturn(body, [error |-> <<"Unknown action: ", action>>,
                            available_actions |-> AvailableActions])
    /\ UNCHANGED <<agents, skills, transfers, requests, ratings>>

NapsterAction(body) ==
    LET action == Lower(Get(body, "action", <<>>))
        params == Get(body, "params", <<>>)
    IN
    CASE action = ActionRegister -> NapsterRegister(body, params)
      [] action = ActionDiscover -> NapsterDiscover(body, params)
      [] action = ActionRequest -> NapsterRequest(body, params)
      [] action = ActionShare -> ShareSkill(params)
      [] action = ActionListSkills -> NapsterListSkills(body, params)
      [] action = ActionListAgents -> NapsterListAgents(body)
      [] action = ActionStats -> NetworkStats
      [] OTHER -> NapsterUnknown(body, action)

-----------------------------------------------------------------------------
(* The calls the model makes *)

AgentNames == {"a1", "a2"}

\* skill tags: w, W (another case of w), sw (contains w), w" (holds a quote)
TagW == <<"w">>
TagUpperW == <<"W">>
TagSw == <<"s", "w">>
TagQuoted == <<"w", Quote>>

RegisterBodies ==
    {[agent_id |-> a] : a \in AgentNames}
    \cup {[agent_id |-> a, name |-> "n1", description |-> "d1", skills |-> <<TagW>>]
            : a \in AgentNames}
    \cup {[agent_id |-> "a1", name |-> "n2", skills |-> <<TagUpperW, TagSw>>],
          [agent_id |-> "", name |-> "n1"],
          [name |-> "n1"]}

PublishBodies ==
    {[agent_id |-> "a1", skill_name |-> "k1"],
     [agent_id |-> "a1", skill_name |-> "k1", category |-> "bogus"],
     [agent_id |-> "a2", skill_name |-> "k1"],
     [agent_id |-> "a1", skill_name |-> "k2"],
     [agent_id |-> "a1"]}

RequestBodies ==
    {[agent_id |-> "a1", skill_name |-> "k1"],
     [agent_id |-> "a2", skill_name |-> "k2"],
     [agent_id |-> "a2"]}

ShareBodies ==
    {[from_agent_id |-> f, to_agent_id |-> t, skill_name |-> "k1"]
        : f \in AgentNames, t \in AgentNames}
    \cup {[from_agent_id |-> "a1", to_agent_id |-> "a2", skill_name |-> "k1", request_id |-> 1],
          [from_agent_id |-> "a2", to_agent_id |-> "a1", skill_name |-> "k2", request_id |-> 1],
          [from_agent_id |-> "a1", to_agent_id |-> "a2", request_id |-> 1],
          [from_agent_id |-> "", to_agent_id |-> "a2", skill_name |-> "k1", request_id |-> 1],
          [from_agent_id |-> "a1", skill_name |-> "k1"]}

RateBodies ==
    {[agent_id |-> "a2", skill_id |-> 1, rating |-> 1],
     [agent_id |-> "a2", skill_id |-> 1, rating |-> 5],
     [agent_id |-> "a2", skill_id |-> 2, rating |-> 5],
     [agent_id |-> "a1", skill_id |-> 1, rating |-> 3],
     [agent_id |-> "a1", skill_id |-> 1],
     [agent_id |-> "a1", skill_id |-> 1, rating |-> 0],
     [agent_id |-> "a1", skill_id |-> 1, rating |-> 6],
     [skill_id |-> 1, rating |-> 5],
     [agent_id |-> "a1", rating |-> 5]}

DispatchBodies ==
    {[action |-> <<"p", "i", "n", "g">>, params |-> [agent_id |-> "a1"]],
     [action |-> ActionDiscover, params |-> [skills_needed |-> <<TagW>>]]}

DiscoverBodies ==
    {[skills_needed |-> <<TagW, TagSw>>, agent_id |-> "a1"],
     [agent_id |-> "a1"]}

\* every call is counted against the bound
Register == now < MaxOps /\ \E body \in RegisterBodies : RegisterAgent(body)
Unregister == now < MaxOps /\ \E a \in AgentNames : Deregister(a)
Publish == now < MaxOps /\ \E body \in PublishBodies : PublishSkill(body)
Request == now < MaxOps /\ \E body \in RequestBodies : RequestSkill(body)
Share == now < MaxOps /\ \E body \in ShareBodies : ShareSkill(body)
Rate == now < MaxOps /\ \E body \in RateBodies : RateSkill(body)
Stats == now < MaxOps /\ NetworkStats
Napster == now < MaxOps /\ \E body \in DispatchBodies : NapsterAction(body)
Discover == now < MaxOps /\ \E body \in DiscoverBodies : DiscoverSkills(body)

Next ==
    \/ Register
    \/ Unregister
    \/ Publish
    \/ Request
    \/ Share
    \/ Rate
    \/ Stats
    \/ Napster
    \/ Discover

Spec == Init /\ [][Next]_vars

-----------------------------------------------------------------------------
(* Discovery on its own: more skill lists, more queries *)

DiscoverRegisterBodies ==
    {[agent_id |-> a, skills |-> l]
        : a \in AgentNames,
          l \in {<<TagW>>, <<TagSw>>, <<TagUpperW, TagSw>>, <<TagQuoted>>}}

DiscoverQueryBodies ==
    {[skills_needed |-> l] : l \in {<<TagW>>, <<TagQuoted>>, <<TagSw, TagUpperW>>}}
    \cup {[skills_needed |-> l, agent_id |-> "a1"]
            : l \in {<<TagW>>, <<TagW, TagSw>>, <<TagW, TagUpperW>>}}
    \cup {[agent_id |-> "a1"], [skills_needed |-> <<>>]}

DiscoverRegister ==
    now < MaxDiscoverOps /\ \E body \in DiscoverRegisterBodies : RegisterAgent(body)
DiscoverUnregister ==
    now < MaxDiscoverOps /\ \E a \in AgentNames : Deregister(a)
DiscoverQuery ==
    now < MaxDiscoverOps /\ \E body \in DiscoverQueryBodies : DiscoverSkills(body)

NextDiscover ==
    \/ DiscoverRegister
    \/ DiscoverUnregister
    \/ DiscoverQuery

SpecDiscover == Init /\ [][NextDiscover]_vars

-----------------------------------------------------------------------------
(* Rating on its own: fewer kinds of call, longer runs *)

RateRegisterBodies == {[agent_id |-> a] : a \in AgentNames}

RatePublishBodies ==
    {[agent_id |-> "a1", skill_name |-> "k1"],
     [agent_id |-> "a1", skill_name |-> "k2"],
     [agent_id |-> "a2", skill_name |-> "k1"]}

RateRateBodies ==
    {[agent_id |-> "a2", skill_id |-> 1, rating |-> 5],
     [agent_id |-> "a2", skill_id |-> 2, rating |-> 1],
     [agent_id |-> "a1", skill_id |-> 2, rating |-> 4],
     [agent_id |-> "a1", skill_id |-> 1, rating |-> 3]}

RateRegister ==
    now < MaxRateOps /\ \E body \in RateRegisterBodies : RegisterAgent(body)
RatePublish ==
    now < MaxRateOps /\ \E body \in RatePublishBodies : PublishSkill(body)
RateRate ==
    now < MaxRateOps /\ \E body \in RateRateBodies : RateSkill(body)

NextRate ==
    \/ RateRegister
    \/ RatePublish
    \/ RateRate

SpecRate == Init /\ [][NextRate]_vars

\* longer runs of every handler, with one agent, one skill and one request
LongRegisterBodies ==
    {[agent_id |-> "a1"],
     [agent_id |-> "a1", name |-> "n2", skills |-> <<TagW>>]}

LongPublishBodies == {[agent_id |-> "a1", skill_name |-> "k1"]}

LongRequestBodies == {[agent_id |-> "a2", skill_name |-> "k1"]}

LongShareBodies ==
    {[from_agent_id |-> "a1", to_agent_id |-> "a2", skill_name |-> "k1",
      request_id |-> 1]}

LongRateBodies ==
    {[agent_id |-> "a2", skill_id |-> 1, rating |-> 1],
     [agent_id |-> "a2", skill_id |-> 1, rating |-> 4]}

LongDiscoverBodies == {[skills_needed |-> <<TagW>>]}

LongRegister ==
    now < MaxLongOps /\ \E body \in LongRegisterBodies : RegisterAgent(body)
LongUnregister ==
    now < MaxLongOps /\ Deregister("a1")
LongPublish ==
    now < MaxLongOps /\ \E body \in LongPublishBodies : PublishSkill(body)
LongRequest ==
    now < MaxLongOps /\ \E body \in LongRequestBodies : RequestSkill(body)
LongShare ==
    now < MaxLongOps /\ \E body \in LongShareBodies : ShareSkill(body)
LongRate ==
    now < MaxLongOps /\ \E body \in LongRateBodies : RateSkill(body)
LongStats ==
    now < MaxLongOps /\ NetworkStats
LongDiscover ==
    now < MaxLongOps /\ \E body \in LongDiscoverBodies : DiscoverSkills(body)

NextLong ==
    \/ LongRegister
    \/ LongUnregister
    \/ LongPublish
    \/ LongRequest
    \/ LongShare
    \/ LongRate
    \/ LongStats
    \/ LongDiscover

SpecLong == Init /\ [][NextLong]_vars

\* statistics over more rows than the lists hold: agents register, skills
\* are published, shares are made, and the statistics are read at the end
StatsAgentId(i) == "a" \o ToString(i)

StatsIdle == last.op # "stats"

StatsRegister ==
    /\ StatsIdle /\ skills = <<>> /\ requests = <<>> /\ transfers = <<>>
    /\ \A i \in DOMAIN agents : agents[i].status = "online"
    /\ Len(agents) < MaxStatsRows
    /\ RegisterAgent([agent_id |-> StatsAgentId(Len(agents) + 1), name |-> "n1"])

StatsUnregister ==
    /\ StatsIdle /\ skills = <<>> /\ requests = <<>> /\ transfers = <<>>
    /\ agents # <<>>
    /\ \A i \in DOMAIN agents : agents[i].status = "online"
    /\ Deregister("a1")

StatsPublish ==
    /\ StatsIdle /\ requests = <<>> /\ transfers = <<>>
    /\ Len(skills) < MaxStatsRows
    /\ PublishSkill([agent_id |-> StatsAgentId(Len(skills) + 1), skill_name |-> "k1"])

StatsRequest ==
    /\ StatsIdle /\ requests = <<>> /\ transfers = <<>>
    /\ RequestSkill([agent_id |-> "a1", skill_name |-> "k1"])

StatsShare ==
    /\ StatsIdle
    /\ Len(transfers) < MaxStatsShares
    /\ \E i \in 1..MaxStatsRows :
          ShareSkill([from_agent_id |-> StatsAgentId(i), to_agent_id |-> "a1",
                      skill_name |-> "k1", request_id |-> 1])

StatsRead == StatsIdle /\ NetworkStats

NextStats ==
    \/ StatsRegister
    \/ StatsUnregister
    \/ StatsPublish
    \/ StatsRequest
    \/ StatsShare
    \/ StatsRead

SpecStats == Init /\ [][NextStats]_vars

\* a share that runs statement by statement while other calls come in: the
\* readers run at any time, the writers fail while the share holds the lock
AtomicRegisterBodies == {[agent_id |-> "a1"], [agent_id |-> "a2"]}

AtomicShareBodies ==
    {[from_agent_id |-> "a1", to_agent_id |-> "a2", skill_name |-> "k1",
      request_id |-> 1],
     [from_agent_id |-> "a1", to_agent_id |-> "a2"]}

AtomicRegister ==
    /\ now < MaxAtomicOps
    /\ \E body \in AtomicRegisterBodies :
          IF ConnWriting THEN Busy("register", body) ELSE RegisterAgent(body)
AtomicPublish ==
    /\ now < MaxAtomicOps
    /\ \E body \in LongPublishBodies :
          IF ConnWriting THEN Busy("publish_skill", body) ELSE PublishSkill(body)
AtomicRequest ==
    /\ now < MaxAtomicOps
    /\ \E body \in LongRequestBodies :
          IF ConnWriting THEN Busy("request", body) ELSE RequestSkill(body)
AtomicStats ==
    now < MaxAtomicOps /\ NetworkStats
AtomicShareOpen ==
    now < MaxAtomicOps /\ \E body \in AtomicShareBodies : ShareOpen(1, body)
AtomicShareStatement == ShareStatement(1)
AtomicShareCommit == ShareCommit(1)
AtomicShareAbort == ShareAbort(1)
AtomicFinalize == ConnFinalize(1)

NextAtomic ==
    \/ AtomicRegister
    \/ AtomicPublish
    \/ AtomicRequest
    \/ AtomicStats
    \/ AtomicShareOpen
    \/ AtomicShareStatement
    \/ AtomicShareCommit
    \/ AtomicShareAbort
    \/ AtomicFinalize

SpecAtomic == Init /\ [][NextAtomic]_vars

\* calls that race on connections of their own: registers and shares run
\* statement by statement, the other writers fail while the lock is held; one
\* agent registers under one of two names, publishes one skill, and then
\* shares it, is rated and registers again with its skills
RaceRegisterBodies ==
    {[agent_id |-> "a1", name |-> "n1"],
     [agent_id |-> "a1", name |-> "n2", skills |-> <<TagW>>]}

RaceShareBodies ==
    {[from_agent_id |-> "a1", to_agent_id |-> "a2", skill_name |-> "k1"]}

RaceRateBodies == {[agent_id |-> "a2", skill_id |-> 1, rating |-> 4]}

\* a call takes the first connection that is free
ConnFree(c) ==
    /\ conn[c].state = "closed"
    /\ \A d \in 1..(c - 1) : conn[d].state # "closed"

RaceRegisterOpen ==
    /\ now < MaxRaceOps
    /\ \E c \in ConnIds : \E body \in RaceRegisterBodies :
          /\ agents # <<>> => "skills" \in DOMAIN body
          /\ ConnFree(c) /\ RegisterOpen(c, body)
RaceRegisterWrite == \E c \in ConnIds : RegisterWrite(c)
RaceRegisterCommit == \E c \in ConnIds : RegisterCommit(c)
RacePublish ==
    /\ now < MaxRaceOps
    /\ agents # <<>> /\ skills = <<>>
    /\ \E body \in LongPublishBodies :
          IF ConnWriting THEN Busy("publish_skill", body) ELSE PublishSkill(body)
RaceRate ==
    /\ now < MaxRaceOps
    /\ skills # <<>> /\ ratings = <<>>
    /\ \E body \in RaceRateBodies :
          IF ConnWriting THEN Busy("rate", body) ELSE RateSkill(body)
RaceShareOpen ==
    /\ now < MaxRaceOps
    /\ skills # <<>>
    /\ \E c \in ConnIds : \E body \in RaceShareBodies :
          ConnFree(c) /\ ShareOpen(c, body)
RaceShareStatement == \E c \in ConnIds : ShareStatement(c)
RaceShareCommit == \E c \in ConnIds : ShareCommit(c)
RaceFinalize == \E c \in ConnIds : ConnFinalize(c)

NextRace ==
    \/ RaceRegisterOpen
    \/ RaceRegisterWrite
    \/ RaceRegisterCommit
    \/ RacePublish
    \/ RaceRate
    \/ RaceShareOpen
    \/ RaceShareStatement
    \/ RaceShareCommit
    \/ RaceFinalize

SpecRace == Init /\ [][NextRace]_vars

\* the dispatching endpoint next to the endpoints it stands for
NapsterRegisterBodies ==
    {[agent_id |-> "a1", skills |-> <<TagW>>],
     [agent_id |-> "a2", skills |-> <<TagSw>>],
     [agent_id |-> ""],
     [name |-> "n1"]}

NapsterRequestBodies ==
    {[agent_id |-> "a1", skill_name |-> "k1"], [agent_id |-> "a1"]}

NapsterShareBodies ==
    {[from_agent_id |-> "a1", to_agent_id |-> "a2", skill_name |-> "k1",
      request_id |-> 1],
     [from_agent_id |-> "a1", skill_name |-> "k1"]}

NapsterBodies ==
    {[action |-> <<"p", "i", "n", "g">>, params |-> [agent_id |-> "a1"]],
     [params |-> [agent_id |-> "a1"]],
     [action |-> <<"S", "t", "a", "t", "s">>],
     [action |-> ActionDiscover, params |-> [skills_needed |-> <<TagW>>]],
     [action |-> ActionDiscover,
      params |-> [skills_needed |-> <<TagSw, TagW>>, agent_id |-> "a1"]],
     [action |-> ActionDiscover, params |-> [agent_id |-> "a1"]],
     [action |-> ActionRequest, params |-> [agent_id |-> "a1", skill_name |-> "k1"]],
     [action |-> ActionRequest, params |-> [agent_id |-> "a1"]],
     [action |-> ActionShare,
      params |-> [from_agent_id |-> "a1", to_agent_id |-> "a2", skill_name |-> "k1"]],
     [action |-> ActionShare, params |-> [from_agent_id |-> "a1", skill_name |-> "k1"]],
     [action |-> ActionRegister, params |-> [agent_id |-> "a1", skills |-> <<TagW>>]],
     [action |-> ActionRegister, params |-> [agent_id |-> ""]],
     [action |-> ActionRegister],
     [action |-> <<"R", "a", "t", "e">>,
      params |-> [agent_id |-> "a2", skill_id |-> 1, rating |-> 5]],
     [action |-> <<"p", "u", "b", "l", "i", "s", "h", "_", "s", "k", "i", "l", "l">>,
      params |-> [agent_id |-> "a1", skill_name |-> "k1"]],
     [action |-> ActionListSkills],
     [action |-> ActionListSkills, params |-> [category |-> "other"]],
     [action |-> ActionListAgents]}

NapsterDirectRegister ==
    now < MaxNapsterOps /\ \E body \in NapsterRegisterBodies : RegisterAgent(body)
NapsterDirectPublish ==
    now < MaxNapsterOps /\ \E body \in LongPublishBodies : PublishSkill(body)
NapsterDirectUnregister ==
    now < MaxNapsterOps /\ Deregister("a1")
NapsterDirectRequest ==
    now < MaxNapsterOps /\ \E body \in NapsterRequestBodies : RequestSkill(body)
NapsterDirectShare ==
    now < MaxNapsterOps /\ \E body \in NapsterShareBodies : ShareSkill(body)
NapsterCall ==
    now < MaxNapsterOps /\ \E body \in NapsterBodies : NapsterAction(body)

NextNapster ==
    \/ NapsterDirectRegister
    \/ NapsterDirectPublish
    \/ NapsterDirectUnregister
    \/ NapsterDirectRequest
    \/ NapsterDirectShare
    \/ NapsterCall

SpecNapster == Init /\ [][NextNapster]_vars

-----------------------------------------------------------------------------
(* Properties *)

Ok(call, op) == call.op = op /\ call.status = 200

TransfersFrom(id) == {t \in DOMAIN transfers : transfers[t].from_agent_id = id}

\* C1: every agent record has total_shares equal to the number of Transfer
\* records whose from_agent_id is that agent
C1_SharesEqualTransfers ==
    \A i \in DOMAIN agents :
        agents[i].total_shares = Cardinality(TransfersFrom(agents[i].id))

\* C2: register on an id that has a record overwrites name, description,
\* skills and last_seen with the values of the call, sets status to online,
\* and leaves registered_at, total_shares, total_receives and reputation of
\* that record, and every other record, unchanged
C2_ReRegisterIsUpsert ==
    [][(Ok(last', "register") /\ last'.body.agent_id \in AgentIds) =>
        LET b == last'.body
            i == AgentIndex(b.agent_id)
        IN  /\ DOMAIN agents' = DOMAIN agents
            /\ \A j \in DOMAIN agents : j # i => agents'[j] = agents[j]
            /\ agents'[i].id = b.agent_id
            /\ agents'[i].name = Get(b, "name", "Agent-" \o b.agent_id)
            /\ agents'[i].description = Get(b, "description", "")
            /\ JsonLoads(agents'[i].skills) = Get(b, "skills", <<>>)
            /\ agents'[i].last_seen = now
            /\ agents'[i].status = "online"
            /\ agents'[i].registered_at = agents[i].registered_at
            /\ agents'[i].total_shares = agents[i].total_shares
            /\ agents'[i].total_receives = agents[i].total_receives
            /\ agents'[i].reputation = agents[i].reputation
            /\ UNCHANGED <<skills, transfers, requests, ratings>>
      ]_vars

\* C2 witness: an agent that shared once, with total_shares 1, has registered
\* again under another name
C2_Witness ==
    /\ Ok(last, "register")
    /\ Ok(prev, "share")
    /\ prev.body.from_agent_id = last.body.agent_id
    /\ \E i \in DOMAIN agents :
          /\ agents[i].id = last.body.agent_id
          /\ agents[i].total_shares = 1
          /\ agents[i].registered_at < agents[i].last_seen
          /\ agents[i].name = "n2"

\* C3: a register call repeated at once with the same arguments leaves exactly
\* one record with that id, online, with the name and skills of the call, and
\* changes nothing in any relation but that record's last_seen
C3_RegisterIdempotent ==
    [][(Ok(last, "register") /\ Ok(last', "register") /\ last'.body = last.body) =>
        LET b == last.body
            i == AgentIndex(b.agent_id)
        IN  /\ Cardinality({j \in DOMAIN agents' : agents'[j].id = b.agent_id}) = 1
            /\ agents'[i].status = "online"
            /\ agents'[i].name = Get(b, "name", "Agent-" \o b.agent_id)
            /\ JsonLoads(agents'[i].skills) = Get(b, "skills", <<>>)
            /\ agents' = [agents EXCEPT ![i].last_seen = agents'[i].last_seen]
            /\ UNCHANGED <<skills, transfers, requests, ratings>>
      ]_vars

\* C3 witness: the same register call was made twice in a row
C3_Witness ==
    /\ Ok(prev, "register")
    /\ Ok(last, "register")
    /\ last.body = prev.body
    /\ "skills" \in DOMAIN last.body
    /\ \E i \in DOMAIN agents :
          agents[i].id = last.body.agent_id /\ agents[i].last_seen > agents[i].registered_at

\* how often a value occurs in a sequence
Occurrences(seq, x) == Cardinality({k \in DOMAIN seq : seq[k] = x})

\* the agent holds a tag equal to the skill when case is ignored
HoldsTag(row, skill) ==
    LET tags == JsonLoads(row.skills)
    IN  \E k \in DOMAIN tags : Lower(tags[k]) = Lower(skill)

\* C4: discover returns a match (skill, agent) exactly when skill is among
\* skills_needed, the agent is online, is not the requester and holds a tag
\* equal to skill ignoring case; an agent matching k requested skills appears
\* k times
C4_DiscoverExactMembership ==
    Ok(last, "discover") =>
        LET needed == last.body.skills_needed
            requester == Get(last.body, "agent_id", None)
            matches == last.result
        IN  /\ \A m \in DOMAIN matches :
                  /\ \E k \in DOMAIN needed : needed[k] = matches[m].skill
                  /\ matches[m].agent_id \in AgentIds
            /\ \A i \in DOMAIN agents : \A k \in DOMAIN needed :
                  Cardinality({m \in DOMAIN matches :
                                  /\ matches[m].skill = needed[k]
                                  /\ matches[m].agent_id = agents[i].id})
                  = IF /\ agents[i].status = "online"
                       /\ agents[i].id # requester
                       /\ HoldsTag(agents[i], needed[k])
                    THEN Occurrences(needed, needed[k])
                    ELSE 0

\* C5: after a successful share that carries the id of an existing request,
\* that request is fulfilled, fulfilled_by is the sharer and fulfilled_at is set
C5_ShareFulfillsUnconditionally ==
    (Ok(last, "share") /\ Get(last.body, "request_id", NoId) \in DOMAIN requests) =>
        LET r == requests[last.body.request_id]
        IN  /\ r.status = "fulfilled"
            /\ r.fulfilled_by = last.body.from_agent_id
            /\ r.fulfilled_at # NoTime

\* C5 witness: a request fulfilled by one sharer was fulfilled again by
\* another, with a skill that is not the requested one
C5_Witness ==
    /\ Ok(prev, "share") /\ Ok(last, "share")
    /\ Get(prev.body, "request_id", NoId) \in DOMAIN requests
    /\ Get(last.body, "request_id", NoId) = Get(prev.body, "request_id", NoId)
    /\ prev.body.from_agent_id # last.body.from_agent_id
    /\ requests[last.body.request_id].skill_name # last.body.skill_name
    /\ requests[last.body.request_id].fulfilled_by = last.body.from_agent_id

\* C6: a request starts open, a fulfilled request stays fulfilled, and only a
\* share that carries the id of a request changes that request
C6_RequestLifecycle ==
    [][/\ Len(requests') >= Len(requests)
       /\ \A i \in DOMAIN requests' :
             IF i \in DOMAIN requests
             THEN /\ requests[i].status = "fulfilled" => requests'[i].status = "fulfilled"
                  /\ requests'[i].status \in {"open", "fulfilled"}
                  /\ requests'[i] # requests[i] =>
                        /\ Ok(last', "share")
                        /\ Get(last'.body, "request_id", NoId) = requests[i].id
             ELSE /\ requests'[i].status = "open"
                  /\ requests'[i].fulfilled_by = None
                  /\ requests'[i].fulfilled_at = NoTime
      ]_vars

\* C6 witness: two requests, one fulfilled by a share and the other still open
C6_Witness ==
    /\ Ok(last, "share")
    /\ Len(requests) = 2
    /\ requests[1].status = "fulfilled"
    /\ requests[2].status = "open"

RECURSIVE RatingSum(_, _)
\* the sum of the rating values of the rows of rs whose positions are in idx
RatingSum(rs, idx) ==
    IF idx = {} THEN 0
    ELSE LET k == CHOOSE k \in idx : TRUE
         IN  rs[k].rating + RatingSum(rs, idx \ {k})

\* the fraction f is the arithmetic mean of the rows idx of ratings
IsMeanOf(f, idx) ==
    /\ idx # {}
    /\ f[1] * Cardinality(idx) = f[2] * RatingSum(ratings, idx)

RatingsOfSkill(skill_id) == {k \in DOMAIN ratings : ratings[k].skill_id = skill_id}

RatingsOfOwner(owner) ==
    {k \in DOMAIN ratings :
        \E i \in DOMAIN skills :
            skills[i].id = ratings[k].skill_id /\ skills[i].owner_agent_id = owner}

\* C7: right after a successful rate on an existing skill, the skill's rating
\* is the mean of all Rating records of that skill, each record counted once
C7_SkillRatingIsMean ==
    (Ok(last, "rate") /\ last.body.skill_id \in DOMAIN skills) =>
        IsMeanOf(skills[last.body.skill_id].rating, RatingsOfSkill(last.body.skill_id))

\* C7 witness: one rater rated the skill twice, another once; 5, 5 and 3 give 13/3
C7_Witness ==
    /\ Ok(last, "rate")
    /\ last.body.skill_id \in DOMAIN skills
    /\ \E j, k \in RatingsOfSkill(last.body.skill_id) :
          j # k /\ ratings[j].rater_agent_id = ratings[k].rater_agent_id
    /\ \E j, k \in RatingsOfSkill(last.body.skill_id) :
          ratings[j].rating = 5 /\ ratings[k].rating = 3
    /\ skills[last.body.skill_id].rating[2] # 1

\* C8: right after a successful rate on a skill whose owner has an agent
\* record, the owner's reputation is the mean of all Rating records of all
\* skills the owner owns
C8_ReputationIsMeanOverOwnedSkills ==
    (/\ Ok(last, "rate")
     /\ last.body.skill_id \in DOMAIN skills
     /\ skills[last.body.skill_id].owner_agent_id \in AgentIds) =>
        LET owner == skills[last.body.skill_id].owner_agent_id
        IN  IsMeanOf(AgentRow(owner).reputation, RatingsOfOwner(owner))

\* C8 witness: the owner has two rated skills and a reputation that is not the
\* rating of the skill just rated
C8_Witness ==
    /\ Ok(last, "rate")
    /\ last.body.skill_id \in DOMAIN skills
    /\ LET s == last.body.skill_id
           owner == skills[s].owner_agent_id
       IN  /\ owner \in AgentIds
           /\ \E o \in DOMAIN skills :
                 /\ o # s
                 /\ skills[o].owner_agent_id = owner
                 /\ RatingsOfSkill(o) # {}
           /\ AgentRow(owner).reputation # skills[s].rating

\* C9: rate with a rating outside 1..5, or without agent_id or skill_id, is
\* refused and changes no relation; any other rate succeeds and appends one
\* Rating; every Rating record holds a rating within 1..5
C9_RateValidation ==
    [][last'.op = "rate" =>
        LET b == last'.body
            rating == Get(b, "rating", 5)
            invalid == \/ Get(b, "agent_id", "") = ""
                       \/ Get(b, "skill_id", 0) = 0
                       \/ rating \notin 1..5
        IN  /\ invalid => last'.status = 400 /\ UNCHANGED store
            /\ ~invalid =>
                  /\ last'.status = 200
                  /\ Len(ratings') = Len(ratings) + 1
                  /\ SubSeq(ratings', 1, Len(ratings)) = ratings
                  /\ ratings'[Len(ratings')].rating = rating
                  /\ ratings'[Len(ratings')].skill_id = b.skill_id
                  /\ ratings'[Len(ratings')].rater_agent_id = b.agent_id
            /\ \A k \in DOMAIN ratings' : ratings'[k].rating \in 1..5
      ]_vars

\* C9 witness: a rate with rating 1 succeeded and a rate with rating 0 was
\* then refused
C9_Witness ==
    /\ Ok(prev, "rate") /\ Get(prev.body, "rating", 5) = 1
    /\ last.op = "rate" /\ last.status = 400 /\ Get(last.body, "rating", 5) = 0
    /\ Len(ratings) = 1 /\ ratings[1].rating = 1

\* C10: share with from_agent_id, to_agent_id or skill_name absent or empty is
\* refused and changes no relation, also when it carries a request_id
C10_ShareValidation ==
    [][(/\ last'.op = "share"
        /\ \/ Get(last'.body, "from_agent_id", "") = ""
           \/ Get(last'.body, "to_agent_id", "") = ""
           \/ Get(last'.body, "skill_name", "") = "") =>
        /\ last'.status = 400
        /\ UNCHANGED store
      ]_vars

\* C10 witness: a share without skill_name that names an open request was
\* refused and the request is still open
C10_Witness ==
    /\ last.op = "share" /\ last.status = 400
    /\ "skill_name" \notin DOMAIN last.body
    /\ Get(last.body, "request_id", NoId) \in DOMAIN requests
    /\ requests[last.body.request_id].status = "open"
    /\ agents # <<>>

\* C11: a register call whose agent_id is absent or empty is refused with the
\* validation error (status 400), whether or not it carries a name
C11_RegisterValidation ==
    (last.op = "register" /\ Get(last.body, "agent_id", "") = "") =>
        last.status = 400

\* C13: every successful share appends exactly one Transfer, with status
\* completed; no other operation adds a Transfer; no operation changes or
\* removes a Transfer or a Rating; every Transfer has status completed
C13_TransfersAppendOnly ==
    [][/\ Ok(last', "share") => Len(transfers') = Len(transfers) + 1
       /\ transfers' # transfers =>
            /\ Ok(last', "share")
            /\ Len(transfers') = Len(transfers) + 1
       /\ \A i \in DOMAIN transfers :
            i \in DOMAIN transfers' /\ transfers'[i] = transfers[i]
       /\ \A i \in DOMAIN ratings :
            i \in DOMAIN ratings' /\ ratings'[i] = ratings[i]
       /\ \A i \in DOMAIN transfers' : transfers'[i].status = "completed"
      ]_vars

\* C13 witness: a share, a rate and a second share succeeded in turn; the
\* first Transfer and the Rating are still there
C13_Witness ==
    /\ Ok(last, "share") /\ Ok(prev, "rate")
    /\ Len(transfers) = 2 /\ Len(ratings) = 1
    /\ transfers[1].timestamp < ratings[1].created_at

\* C15: every successful publish_skill adds exactly one Skill, with an id no
\* Skill had, rating at the default and times_shared 0, also when a Skill of
\* the same owner and name exists, and changes no existing Skill
C15_PublishNeverDeduplicates ==
    [][Ok(last', "publish_skill") =>
        LET new == skills'[Len(skills')] IN
        /\ Len(skills') = Len(skills) + 1
        /\ \A i \in DOMAIN skills : skills'[i] = skills[i]
        /\ new.id \notin {skills[i].id : i \in DOMAIN skills}
        /\ new.id = last'.result.skill_id
        /\ new.owner_agent_id = last'.body.agent_id
        /\ new.skill_name = last'.body.skill_name
        /\ new.rating = DefaultScore
        /\ new.times_shared = 0
      ]_vars

\* C15 witness: a skill was published, shared once, and published again by
\* the same owner under the same name
C15_Witness ==
    /\ Ok(last, "publish_skill") /\ Ok(prev, "share")
    /\ Len(skills) = 2
    /\ skills[1].owner_agent_id = skills[2].owner_agent_id
    /\ skills[1].skill_name = skills[2].skill_name
    /\ skills[1].id # skills[2].id
    /\ skills[1].times_shared = 1 /\ skills[2].times_shared = 0

\* C16: the category of every Skill is a member of the fixed set of
\* categories; a publish_skill with a category outside that set stores "other"
C16_CategoryInFixedSet ==
    \A i \in DOMAIN skills : skills[i].category \in SKILL_CATEGORIES

\* C17: a successful request appends exactly one Request, with status open
\* and fulfilled_by and fulfilled_at null, and leaves agents, skills,
\* transfers, ratings and every existing Request unchanged, whether or not an
\* online agent offers the skill
C17_RequestFrame ==
    [][Ok(last', "request") =>
        LET new == requests'[Len(requests')] IN
        /\ Len(requests') = Len(requests) + 1
        /\ \A i \in DOMAIN requests : requests'[i] = requests[i]
        /\ new.requester_agent_id = last'.body.agent_id
        /\ new.skill_name = last'.body.skill_name
        /\ new.status = "open"
        /\ new.fulfilled_by = None
        /\ new.fulfilled_at = NoTime
        /\ UNCHANGED <<agents, skills, transfers, ratings>>
      ]_vars

\* C17 witness: a request was posted for a skill that an online agent has
\* published, and it is open
C17_Witness ==
    /\ Ok(last, "request")
    /\ \E i \in DOMAIN skills, j \in DOMAIN agents :
          /\ skills[i].skill_name = last.body.skill_name
          /\ skills[i].owner_agent_id = agents[j].id
          /\ agents[j].status = "online"
    /\ requests[Len(requests)].status = "open"
    /\ requests[Len(requests)].fulfilled_by = None

\* C12: deregister sets the status of an existing agent to offline and
\* changes no other field and no other record; on an id that has no record it
\* succeeds and changes nothing; an offline agent is returned by no discover
\* call, and it goes back online only by registering again
C12_DeregisterOffline ==
    [][/\ last'.op = "deregister" =>
            /\ last'.status = 200
            /\ DOMAIN agents' = DOMAIN agents
            /\ \A i \in DOMAIN agents :
                  agents'[i] = IF agents[i].id = last'.body.agent_id
                               THEN [agents[i] EXCEPT !.status = "offline"]
                               ELSE agents[i]
            /\ UNCHANGED <<skills, transfers, requests, ratings>>
       /\ Ok(last', "discover") =>
            \A m \in DOMAIN last'.result : \A i \in DOMAIN agents :
                agents[i].id = last'.result[m].agent_id =>
                    agents[i].status = "online"
       /\ \A i \in DOMAIN agents :
            (agents[i].status = "offline" /\ agents'[i].status = "online") =>
                Ok(last', "register") /\ last'.body.agent_id = agents[i].id
      ]_vars

\* C12 witness: an agent holding the tag asked for was deregistered, and the
\* discover call that followed did not return it
C12_Witness ==
    /\ Ok(last, "discover") /\ prev.op = "deregister"
    /\ \E i \in DOMAIN agents :
          /\ agents[i].id = prev.body.agent_id
          /\ agents[i].status = "offline"
          /\ agents[i].id # Get(last.body, "agent_id", "anonymous")
          /\ \E k \in DOMAIN last.body.skills_needed :
                HoldsTag(agents[i], last.body.skills_needed[k])
          /\ \A m \in DOMAIN last.result :
                last.result[m].agent_id # agents[i].id

C18_ReputationChangedOnlyByRate ==
    [][/\ \A i \in DOMAIN agents :
            /\ i \in DOMAIN agents'
            /\ agents'[i].reputation # agents[i].reputation => Ok(last', "rate")
       /\ \A i \in DOMAIN agents' \ DOMAIN agents :
            agents'[i].reputation = DefaultScore
      ]_vars

\* C18 witness: an agent whose reputation a rate had moved away from 5.0 has
\* shared and then registered again, and its reputation is still that value
C18_Witness ==
    /\ Ok(last, "register") /\ Ok(prev, "share")
    /\ \E i \in DOMAIN agents :
          /\ agents[i].id = last.body.agent_id
          /\ agents[i].id = prev.body.from_agent_id
          /\ agents[i].registered_at < agents[i].last_seen
          /\ agents[i].total_shares = 1
          /\ agents[i].reputation # DefaultScore

\* the rows of a relation that a top list can stand for: as many rows as the
\* list has entries, with the same entries, none with a smaller count than a
\* row that is left out
TopOf(list, entries, counts) ==
    \E taken \in SUBSET DOMAIN entries :
        /\ Cardinality(taken) = Len(list)
        /\ \A k \in DOMAIN list :
              Cardinality({l \in DOMAIN list : list[l] = list[k]})
              = Cardinality({i \in taken : entries[i] = list[k]})
        /\ \A i \in taken : \A j \in DOMAIN entries \ taken : counts[j] <= counts[i]

\* C20: stats changes no record; its counts are the number of agents, of
\* online agents, of skills, of transfers and of open requests in the store;
\* top_skills holds at most 5 skills, none with fewer times_shared than a skill
\* left out, and top_sharers at most 5 agents, none with fewer total_shares
\* than an agent left out
C20_StatsCountsAndTops ==
    [][Ok(last', "stats") =>
        LET r == last'.result IN
        /\ UNCHANGED store
        /\ r.network.total_agents = Len(agents)
        /\ r.network.online_agents
             = Cardinality({i \in DOMAIN agents : agents[i].status = "online"})
        /\ r.network.total_skills = Len(skills)
        /\ r.network.total_transfers = Len(transfers)
        /\ r.network.open_requests
             = Cardinality({i \in DOMAIN requests : requests[i].status = "open"})
        /\ Len(r.top_skills) <= 5
        /\ Len(r.top_skills) = 5 \/ Len(r.top_skills) = Len(skills)
        /\ TopOf(r.top_skills,
                 [i \in DOMAIN skills |-> StatsSkillEntry(skills[i])],
                 [i \in DOMAIN skills |-> skills[i].times_shared])
        /\ Len(r.top_sharers) <= 5
        /\ Len(r.top_sharers) = 5 \/ Len(r.top_sharers) = Len(agents)
        /\ TopOf(r.top_sharers,
                 [i \in DOMAIN agents |-> StatsAgentEntry(agents[i])],
                 [i \in DOMAIN agents |-> agents[i].total_shares])
      ]_vars

\* C20 witness: with six agents, one of them offline, six skills, a fulfilled
\* request and one share by the agent and of the skill added last, the
\* statistics were read: that skill and that agent lead the lists and a skill
\* and an agent with no share are left out
C20_Witness ==
    /\ Ok(last, "stats")
    /\ Len(agents) = 6 /\ Len(skills) = 6 /\ Len(transfers) = 1
    /\ agents[6].total_shares = 1 /\ skills[6].times_shared = 1
    /\ last.result.network.online_agents = 5
    /\ last.result.network.open_requests = 0 /\ Len(requests) = 1
    /\ Len(last.result.top_skills) = 5 /\ last.result.top_skills[1].shares = 1
    /\ Len(last.result.top_sharers) = 5 /\ last.result.top_sharers[1].shares = 1

\* C19: share is one unit against the store that other operations read: in
\* every step, of any interleaving and also when the share fails part-way,
\* a Transfer appears together with the increments of total_shares,
\* total_receives and times_shared and the fulfilment that belong to it, and
\* none of these appears without the Transfer
C19_ShareAtomic ==
    [][/\ Len(transfers') # Len(transfers) =>
            LET new == transfers'[Len(transfers')] IN
            /\ Len(transfers') = Len(transfers) + 1
            /\ Ok(last', "share")
            /\ agents' = ShareCountReceives(
                            ShareCountShares(agents, new.from_agent_id),
                            new.to_agent_id)
            /\ skills' = ShareCountSkill(new.skill_id)
            /\ requests' = ShareFulfill(Get(last'.body, "request_id", NoId),
                                        new.from_agent_id, new.timestamp)
       /\ (\/ \E i \in DOMAIN agents :
                \/ agents'[i].total_shares # agents[i].total_shares
                \/ agents'[i].total_receives # agents[i].total_receives
           \/ \E i \in DOMAIN skills :
                skills'[i].times_shared # skills[i].times_shared
           \/ \E i \in DOMAIN requests : requests'[i] # requests[i])
          => Len(transfers') = Len(transfers) + 1
      ]_vars

\* C19 witness: while a share had made its writes and not yet committed, a
\* register was turned away by the lock and the statistics were then read:
\* they count no Transfer, and no counter in the store has moved
C19_Witness ==
    /\ conn[1].state = "open" /\ conn[1].pc = 6
    /\ prev.op = "register" /\ prev.status = 500
    /\ Ok(last, "stats")
    /\ last.result.network.total_transfers = 0 /\ transfers = <<>>
    /\ Len(conn[1].work.transfers) = 1
    /\ \E i \in DOMAIN agents :
          /\ agents[i].total_shares = 0
          /\ conn[1].work.agents[i].total_shares = 1
    /\ \E i \in DOMAIN skills :
          /\ skills[i].times_shared = 0
          /\ conn[1].work.skills[i].times_shared = 1

\* C23: in every state, every agent that owns a skill with a Rating has a
\* reputation equal to the mean of all Ratings of the skills it owns, in any
\* order of register, publish_skill and rate
C23_ReputationAlwaysMean ==
    \A i \in DOMAIN agents :
        RatingsOfOwner(agents[i].id) # {} =>
            IsMeanOf(agents[i].reputation, RatingsOfOwner(agents[i].id))

\* C24: in every state, every Skill that has a Rating with its skill_id has a
\* rating equal to the mean of those Ratings, in any order of publish_skill
\* and rate
C24_SkillRatingAlwaysMean ==
    \A i \in DOMAIN skills :
        RatingsOfSkill(skills[i].id) # {} =>
            IsMeanOf(skills[i].rating, RatingsOfSkill(skills[i].id))

TransfersOfSkill(id) == {t \in DOMAIN transfers : transfers[t].skill_id = id}

\* C25: in every state the times_shared of every Skill is the number of
\* Transfers whose skill_id is its id; a share that matches no Skill by name
\* and owner counts on no Skill and stores a null skill_id; a share that
\* matches several Skills counts on exactly one of them, the one its Transfer
\* names
C25_TimesSharedEqualTransfers ==
    /\ [](\A i \in DOMAIN skills :
            skills[i].times_shared = Cardinality(TransfersOfSkill(skills[i].id)))
    /\ [][Ok(last', "share") =>
            LET new == transfers'[Len(transfers')]
                matching == {i \in DOMAIN skills :
                                /\ skills[i].skill_name = last'.body.skill_name
                                /\ skills[i].owner_agent_id = last'.body.from_agent_id}
            IN  /\ matching = {} => new.skill_id = NoId /\ skills' = skills
                /\ matching # {} =>
                      /\ new.skill_id \in {skills[i].id : i \in matching}
                      /\ \A i \in DOMAIN skills :
                            skills'[i].times_shared =
                                IF skills[i].id = new.skill_id
                                THEN skills[i].times_shared + 1
                                ELSE skills[i].times_shared
       ]_vars

\* C25 witness: two skills of the same name and owner exist and a share of
\* that name by that owner counted on one of them only
C25_Witness ==
    /\ Ok(last, "share")
    /\ Len(skills) = 2
    /\ skills[1].skill_name = skills[2].skill_name
    /\ skills[1].owner_agent_id = skills[2].owner_agent_id
    /\ skills[1].skill_name = last.body.skill_name
    /\ skills[1].owner_agent_id = last.body.from_agent_id
    /\ skills[1].times_shared + skills[2].times_shared = 1
    /\ transfers[Len(transfers)].skill_id # NoId

\* a share call that passed the check of its fields and names an agent, a
\* skill or a request that has no record
ShareDangling(body) ==
    /\ ~ShareInvalid(Get(body, "from_agent_id", None), Get(body, "to_agent_id", None),
                    Get(body, "skill_name", None))
    /\ \/ body.from_agent_id \notin AgentIds
       \/ body.to_agent_id \notin AgentIds
       \/ ShareFindSkill(body.skill_name, body.from_agent_id) = NoId
       \/ Get(body, "request_id", NoId) \notin DOMAIN requests \cup {NoId}

\* the agents after a share from f to t: the two counters, and nothing else
ShareCounted(f, t) ==
    [i \in DOMAIN agents |->
        [agents[i] EXCEPT
            !.total_shares = IF agents[i].id = f THEN @ + 1 ELSE @,
            !.total_receives = IF agents[i].id = t THEN @ + 1 ELSE @]]

\* C28 as stated: a share that names an agent, a skill or a request that has
\* no record succeeds, appends its Transfer, creates no record and changes no
\* field of a record other than the counters of the agents that exist
C28_DanglingShareChangesOnlyAgentCounters ==
    [][(last'.op = "share" /\ ShareDangling(last'.body)) =>
        /\ last'.status = 200
        /\ transfers' = Append(transfers, transfers'[Len(transfers')])
        /\ agents' = ShareCounted(last'.body.from_agent_id, last'.body.to_agent_id)
        /\ skills' = skills
        /\ requests' = requests
        /\ ratings' = ratings
      ]_vars

\* C28 amended: such a share succeeds, appends its Transfer, creates no
\* record, and changes nothing but the counters of the agents that exist, the
\* times_shared of the skill its Transfer names and the fulfilment of the
\* request it names
C28_DanglingShareCreatesNothing ==
    [][(last'.op = "share" /\ ShareDangling(last'.body)) =>
        LET b == last'.body
            new == transfers'[Len(transfers')]
        IN  /\ last'.status = 200
            /\ transfers' = Append(transfers, new)
            /\ new.skill_id = ShareFindSkill(b.skill_name, b.from_agent_id)
            /\ agents' = ShareCounted(b.from_agent_id, b.to_agent_id)
            /\ skills' = [i \in DOMAIN skills |->
                            IF skills[i].id = new.skill_id
                            THEN [skills[i] EXCEPT !.times_shared = @ + 1]
                            ELSE skills[i]]
            /\ requests' = [i \in DOMAIN requests |->
                              IF requests[i].id = Get(b, "request_id", NoId)
                              THEN [requests[i] EXCEPT !.status = "fulfilled",
                                                       !.fulfilled_by = b.from_agent_id,
                                                       !.fulfilled_at = new.timestamp]
                              ELSE requests[i]]
            /\ ratings' = ratings
      ]_vars

\* C28 witness: a share from an agent with no record, of a skill with no
\* record, naming a request with no record, to an agent that exists: the
\* Transfer is there with a null skill_id and the receiver is counted
C28_Witness ==
    /\ Ok(last, "share")
    /\ last.body.from_agent_id \notin AgentIds
    /\ last.body.to_agent_id \in AgentIds
    /\ Get(last.body, "request_id", NoId) = 1 /\ requests = <<>>
    /\ skills # <<>>
    /\ transfers[Len(transfers)].skill_id = NoId
    /\ AgentRow(last.body.to_agent_id).total_receives = 1
    /\ Len(agents) = 1

TransfersTo(id) == {t \in DOMAIN transfers : transfers[t].to_agent_id = id}

\* C29: total_shares and total_receives of every agent are never negative,
\* never decrease, and never exceed the number of Transfers that name the
\* agent as from_agent_id, respectively to_agent_id; a share from an agent to
\* itself raises both of its counters by one
C29_CountersBounded ==
    /\ [](\A i \in DOMAIN agents :
            /\ 0 <= agents[i].total_shares
            /\ agents[i].total_shares <= Cardinality(TransfersFrom(agents[i].id))
            /\ 0 <= agents[i].total_receives
            /\ agents[i].total_receives <= Cardinality(TransfersTo(agents[i].id)))
    /\ [][/\ \A i \in DOMAIN agents :
                /\ agents[i].total_shares <= agents'[i].total_shares
                /\ agents[i].total_receives <= agents'[i].total_receives
          /\ (Ok(last', "share") /\ last'.body.from_agent_id = last'.body.to_agent_id) =>
                \A i \in DOMAIN agents :
                    agents[i].id = last'.body.from_agent_id =>
                        /\ agents'[i].total_shares = agents[i].total_shares + 1
                        /\ agents'[i].total_receives = agents[i].total_receives + 1
       ]_vars

\* C29 witness: an agent shared with itself and both of its counters are 1,
\* while another agent, named by no Transfer, has both at 0
C29_Witness ==
    /\ Ok(last, "share")
    /\ last.body.from_agent_id = last.body.to_agent_id
    /\ last.body.from_agent_id \in AgentIds
    /\ AgentRow(last.body.from_agent_id).total_shares = 1
    /\ AgentRow(last.body.from_agent_id).total_receives = 1
    /\ \E i \in DOMAIN agents :
          agents[i].total_shares = 0 /\ agents[i].total_receives = 0

\* the rows of rel are still there after the step, under the same ids, and
\* every row the step added has an id that no row had
KeptAndFresh(rel, relNext) ==
    /\ \A i \in DOMAIN rel : i \in DOMAIN relNext /\ relNext[i].id = rel[i].id
    /\ \A i \in DOMAIN relNext \ DOMAIN rel :
          /\ relNext[i].id \notin {rel[j].id : j \in DOMAIN rel}
          /\ \A j \in DOMAIN relNext : relNext[j].id = relNext[i].id => j = i

\* C30: no operation removes an agent, a Skill or a Request: a record that
\* exists under an id exists under it in every later state; registered_at of
\* an agent never changes after its first register; no id of a Skill,
\* Transfer, Request or Rating is given twice
C30_NothingRemovedNoIdReused ==
    [][/\ KeptAndFresh(agents, agents')
       /\ \A i \in DOMAIN agents : agents'[i].registered_at = agents[i].registered_at
       /\ KeptAndFresh(skills, skills')
       /\ KeptAndFresh(transfers, transfers')
       /\ KeptAndFresh(requests, requests')
       /\ KeptAndFresh(ratings, ratings')
      ]_vars

\* C30 witness: an agent registered, a skill was published, and the agent
\* registered again: its one record is there with the first registered_at
C30_Witness ==
    /\ Ok(last, "register") /\ Ok(prev, "publish_skill")
    /\ Len(agents) = 1 /\ Len(skills) = 1
    /\ agents[1].registered_at = 0
    /\ agents[1].last_seen = 2
    /\ skills[1].id = 1

\* the call was made to the dispatching endpoint with an action name that is
\* none of the names it knows
UnknownAction(call) ==
    /\ call.op = "napster"
    /\ \A k \in DOMAIN AvailableActions :
          Lower(Get(call.body, "action", <<>>)) # AvailableActions[k]

\* C21: the dispatch operation called with an action name it does not know
\* returns a value that carries an error and the list of the available
\* actions, raises nothing, and changes no relation
C21_UnknownActionIsAnswered ==
    [][UnknownAction(last') =>
        /\ last'.status = 200
        /\ DOMAIN last'.result = {"error", "available_actions"}
        /\ last'.result.available_actions = AvailableActions
        /\ UNCHANGED store
      ]_vars

\* C21 witness: with an agent and a skill in the store, a call with the
\* action name ping was answered with the error and the seven actions
C21_Witness ==
    /\ UnknownAction(last)
    /\ Get(last.body, "action", <<>>) = <<"p", "i", "n", "g">>
    /\ last.status = 200
    /\ Len(last.result.available_actions) = 7
    /\ agents # <<>> /\ skills # <<>>

\* C22: the dispatch operation with action discover returns the matches the
\* direct discover operation returns for the same skills_needed and requester
\* on the same store: the same agents in the same order, and the same refusal
\* of an empty skills_needed
C22_DispatchDiscoverEqualsDirect ==
    (last.op = "napster" /\ Lower(Get(last.body, "action", <<>>)) = ActionDiscover) =>
        LET params == Get(last.body, "params", <<>>)
            needed == Get(params, "skills_needed", <<>>)
            requester == Get(params, "agent_id", "anonymous")
        IN  IF needed = <<>> THEN last.status = 400
            ELSE /\ last.status = 200
                 /\ \E direct \in DiscoverResults(needed, requester) :
                       /\ Len(direct) = Len(last.result.matches)
                       /\ \A k \in DOMAIN direct :
                             /\ direct[k].skill = last.result.matches[k].skill
                             /\ direct[k].agent_id = last.result.matches[k].agent_id

\* C26: a share that completes successfully raises total_shares of its
\* registered source agent by exactly one over its committed value, and no
\* other step changes total_shares of any agent, while shares from the same
\* agent, registers of it and ratings of its skill run concurrently on
\* connections of their own: n successful shares add exactly n
C26_NoLostIncrement ==
    [][LET done == {c \in ConnIds :
                      /\ conn[c].state = "open" /\ conn[c].op = "share"
                      /\ conn'[c].state = "closed" /\ Ok(last', "share")}
       IN \A i \in DOMAIN agents :
             /\ i \in DOMAIN agents'
             /\ agents'[i].total_shares =
                  agents[i].total_shares +
                  Cardinality({c \in done :
                                 conn[c].body.from_agent_id = agents[i].id})
      ]_vars

\* C26 witness: two shares from a1 overlapped (the one opened later wrote its
\* Transfer first), a1 registered again and its skill was rated while the
\* first was open, both shares completed and total_shares of a1 is 2
C26_Witness ==
    /\ \A c \in ConnIds : conn[c].state = "closed"
    /\ Ok(last, "share") /\ Ok(prev, "share")
    /\ Len(transfers) = 2
    /\ transfers[1].timestamp > transfers[2].timestamp
    /\ \A j \in DOMAIN transfers : transfers[j].from_agent_id = "a1"
    /\ ratings # <<>>
    /\ \A j \in DOMAIN ratings : ratings[j].created_at > transfers[2].timestamp
    /\ \E i \in DOMAIN agents :
          /\ agents[i].id = "a1"
          /\ agents[i].total_shares = 2
          /\ agents[i].last_seen > transfers[2].timestamp
          /\ agents[i].reputation # DefaultScore

\* C27: when two register calls for the same agent_id both found no record
\* in their existence check, both complete with success and exactly one
\* agent record with that id exists, holding the name, description and
\* skills of one of the two calls
C27_RacingRegistersBothComplete ==
    (/\ last.op = "register" /\ prev.op = "register"
     /\ "existing" \in DOMAIN last /\ "existing" \in DOMAIN prev
     /\ ~last.existing /\ ~prev.existing
     /\ last.body.agent_id = prev.body.agent_id)
    => /\ last.status = 200 /\ prev.status = 200
       /\ Cardinality({i \in DOMAIN agents : agents[i].id = last.body.agent_id}) = 1
       /\ \E i \in DOMAIN agents : \E body \in {last.body, prev.body} :
             /\ agents[i].id = body.agent_id
             /\ agents[i].name = Get(body, "name", DefaultName(body.agent_id))
             /\ agents[i].description = Get(body, "description", "")
             /\ agents[i].skills = JsonDumps(Get(body, "skills", <<>>))

\* the call was made through the dispatch operation under this action name
DispatchedAs(call, action) ==
    call.op = "napster" /\ Lower(Get(call.body, "action", <<>>)) = action

\* the call stands for this operation, made directly or through the dispatch
\* operation (a dispatched share is handed on and recorded as a share)
StandsFor(call, op, action) == call.op = op \/ DispatchedAs(call, action)

\* the params of the operation a call stands for
ParamsOf(call) ==
    IF call.op = "napster" THEN Get(call.body, "params", <<>>) ELSE call.body

\* the call reported a validation error: it was refused, or it returned a
\* value that carries an error
ValidationReported(call) ==
    \/ call.status = 400
    \/ call.status = 200 /\ "error" \in DOMAIN call.result

\* the store that register leaves when it is called with params p
RegisterEffect(p) ==
    LET agent_id == Get(p, "agent_id", None)
        name == Get(p, "name", DefaultName(agent_id))
        description == Get(p, "description", "")
        skillsText == JsonDumps(Get(p, "skills", <<>>))
    IN  IF Falsy(agent_id) THEN store
        ELSE <<IF agent_id \in AgentIds
               THEN [i \in DOMAIN agents |->
                       IF agents[i].id = agent_id
                       THEN [agents[i] EXCEPT !.name = name,
                                              !.description = description,
                                              !.skills = skillsText,
                                              !.last_seen = now,
                                              !.status = "online"]
                       ELSE agents[i]]
               ELSE Append(agents,
                       RegisterInsert(agent_id, name, description, skillsText, now)),
               skills, transfers, requests, ratings>>

\* the store that request leaves when it is called with params p
RequestEffect(p) ==
    LET agent_id == Get(p, "agent_id", None)
        skill_name == Get(p, "skill_name", None)
    IN  IF Falsy(agent_id) \/ Falsy(skill_name) THEN store
        ELSE <<agents, skills, transfers,
               Append(requests, RequestInsert(agent_id, skill_name, now)), ratings>>

\* the store that share leaves when it is called with params p
ShareEffect(p) ==
    LET from_agent_id == Get(p, "from_agent_id", None)
        to_agent_id == Get(p, "to_agent_id", None)
        skill_name == Get(p, "skill_name", None)
        skill_id == ShareFindSkill(skill_name, from_agent_id)
    IN  IF Falsy(from_agent_id) \/ Falsy(to_agent_id) \/ Falsy(skill_name)
        THEN store
        ELSE <<ShareCountReceives(ShareCountShares(agents, from_agent_id),
                                  to_agent_id),
               ShareCountSkill(skill_id),
               Append(transfers,
                      ShareTransfer(skill_id, from_agent_id, to_agent_id, now)),
               ShareFulfill(Get(p, "request_id", NoId), from_agent_id, now),
               ratings>>

\* params that register, request or share must refuse
InvalidParams(call) ==
    LET p == ParamsOf(call) IN
    \/ /\ StandsFor(call, "register", ActionRegister)
       /\ Falsy(Get(p, "agent_id", None))
    \/ /\ StandsFor(call, "request", ActionRequest)
       /\ Falsy(Get(p, "agent_id", None)) \/ Falsy(Get(p, "skill_name", None))
    \/ /\ StandsFor(call, "share", ActionShare)
       /\ \/ Falsy(Get(p, "from_agent_id", None))
          \/ Falsy(Get(p, "to_agent_id", None))
          \/ Falsy(Get(p, "skill_name", None))

\* C31: a register, request or share leaves the store that the operation
\* determines from the params alone, whether it was called directly or
\* through the dispatch operation, so both ways have the same effect on the
\* store; with invalid params both leave the store unchanged and report a
\* validation error
C31_DispatchEqualsDirect ==
    [][now' # now =>
        /\ StandsFor(last', "register", ActionRegister)
             => store' = RegisterEffect(ParamsOf(last'))
        /\ StandsFor(last', "request", ActionRequest)
             => store' = RequestEffect(ParamsOf(last'))
        /\ StandsFor(last', "share", ActionShare)
             => store' = ShareEffect(ParamsOf(last'))
        /\ InvalidParams(last') => UNCHANGED store /\ ValidationReported(last')
      ]_vars

\* the names of the operations of the logical surface that the dispatch
\* operation is to route
SurfaceActions ==
    {ActionRegister, ActionDiscover, ActionRequest, ActionShare,
     ActionListSkills, ActionListAgents, ActionStats,
     <<"d", "e", "r", "e", "g", "i", "s", "t", "e", "r">>,
     <<"p", "u", "b", "l", "i", "s", "h", "_", "s", "k", "i", "l", "l">>,
     <<"r", "a", "t", "e">>}

\* the result is the answer to an unknown action
UnknownResult(call) ==
    /\ call.op = "napster"
    /\ "available_actions" \in DOMAIN call.result

\* C32: a dispatch call whose action, in any letter case, names register,
\* deregister, discover, publish_skill, request, share, rate, list_skills,
\* list_agents or stats is routed: it never ends with the answer to an
\* unknown action
C32_RoutesEveryOperation ==
    (/\ "action" \in DOMAIN last.body
     /\ Lower(last.body.action) \in SurfaceActions)
    => ~UnknownResult(last)

\* C33: every connection is closed or belongs to a call that has not ended:
\* once a call has answered, with a result or with a store failure raised
\* after it opened its connection, that connection is closed; and no write
\* of an uncommitted transaction is in the store that other calls read
C33_HandleReleasedOnEveryExit ==
    \A c \in ConnIds :
        /\ conn[c].state \in {"closed", "open"}
        /\ (conn[c].state # "closed" /\ conn[c].op = "share" /\ conn[c].pc > 1)
              => Len(transfers) < Len(conn[c].work.transfers)

====
